---- MODULE Spec2Model ----
(***************************************************************************)
(* Assembly of the supply-chain MILP by the three model builders           *)
(*   run_scenario_master              (src/optimize/MASTER.py)             *)
(*   run_scenario, fixed network      (src/optimize/Scenario_Setting_For_  *)
(*                                     SC1F.py and src/SC1F.py)            *)
(*   run_scenario, slack formulation  (src/optimize/Scenario_Setting_For_  *)
(*                                     SC2F_uns.py)                        *)
(* One call is followed statement block by statement block: resolution of  *)
(* the node and mode lists, creation of the variable families, the cost    *)
(* and emission expressions, the constraints, the event handling, the      *)
(* objective and the solve.  A linear expression is a set of terms         *)
(* [var, coef, part]; a constraint is [name, idx, lhs, sense, rhs] and     *)
(* reads  sum(lhs) sense rhs.                                              *)
(*                                                                         *)
(* Scaling.  One unit of flow stands for 10^4 product units.  Emissions    *)
(* are in 10^-6 t per flow unit, money in cents per flow unit, distances   *)
(* in units of 100 km, so that every coefficient of the source is a        *)
(* positive integer.  The networks keep the first names of the source's    *)
(* lists (Plants_all, Crossdocks_all, ...).                                *)
(***************************************************************************)
EXTENDS Integers, Sequences, FiniteSets, TLC

\* ---------------------------------------------------------------- bounds
MaxFlow == 2        \* largest value of one flow variable in a solution
MaxDemand == 1      \* largest demand of one retailer
MaxGiven == 2       \* most list and event arguments a call sets away from their defaults

\* ------------------------------------------------------------- utilities
None == <<"None">>                       \* Python's None for a list argument
NoMapping == [None |-> TRUE]             \* Python's None for a mapping argument

Range(s) == {s[i] : i \in 1..Len(s)}

\* list.remove(x) guarded by "if x in list": drops the first occurrence
\* variant: the element stays in the list
Remove_Nothing(s, x) == s

Remove(s, x) ==
    IF x \notin Range(s) THEN s
    ELSE LET i == CHOOSE k \in 1..Len(s) : s[k] = x /\ \A j \in 1..(k-1) : s[j] # x
         IN  SubSeq(s, 1, i-1) \o SubSeq(s, i+1, Len(s))

\* a decision variable: family, origin, destination, mode
Var(fam, o, d, mo) == <<fam, o, d, mo>>
BinVar(n) == <<"f2_2_bin", n, "", "">>
SlackVar(r) == <<"v", r, "", "">>

Term(x, k, part) == [var |-> x, coef |-> k, part |-> part]

\* ------------------------------------------------- default network data
Plants_all == <<"TW">>
Crossdocks_all == <<"ATVIE">>
New_Locs_all == <<"HUDTG">>
Dcs_all == <<"PED">>
Retailers_all == {"FLUXC"}

ModesL1_default == <<"air", "sea">>
ModesL2_default == <<"air", "sea", "road">>
ModesL3_default == <<"air", "sea", "road">>

\* km / 100
dist1 == [p \in Range(Plants_all) |-> [c \in Range(Crossdocks_all) |-> 90]]
dist2 == [c \in Range(Crossdocks_all) |-> [d \in Range(Dcs_all) |-> 2]]
dist2_new == [n \in Range(New_Locs_all) |-> [d \in Range(Dcs_all) |-> 4]]
dist3 == [d \in Range(Dcs_all) |-> [r \in Retailers_all |-> 12]]

\* ton CO2 per ton-km, times 10^6
co2_emission_factor == [air |-> 971, sea |-> 27, road |-> 76]
\* kg CO2 per unit, times 10
co2_prod_kg_per_unit == [p \in Range(Plants_all) |-> 63]
new_loc_CO2 == [n \in Range(New_Locs_all) |-> 32]
lastmile_CO2_kg == 2680                  \* 10^-6 t per unit
product_weight == 258                    \* kg, times 100
\* euro per kg-km, times 10^5
tau0 == [air |-> 1050, sea |-> 130, road |-> 540]
\* cents per unit
sourcing_cost0 == [p \in Range(Plants_all) |-> 334]
handling_crossdock == [c \in Range(Crossdocks_all) |-> 653]
handling_dc == [d \in Range(Dcs_all) |-> 477]
lastmile_unit_cost == 625
new_loc_unitCost == [n \in Range(New_Locs_all) |-> 270]
new_loc_openingCost == [n \in Range(New_Locs_all) |-> 74000]
new_loc_operationCost == [n \in Range(New_Locs_all) |-> 2500]
co2_cost_per_ton == 3750
co2_cost_per_ton_New == 6000
\* LT (days) * h, in cents, and SS (euro/unit) in cents per 10^4 units
LT_h == [air |-> 42, sea |-> 4080, road |-> 850]
SS == [air |-> 21, sea |-> 120, road |-> 57]
CO_2_max_given == 15000                  \* a direct CO2 cap a caller passes, 10^-6 t
unit_inventory_holdingCost == 85         \* cents per unit
\* sqrt(LT (days) + 1), times 100
SqrtLT1 == [air |-> 122, sea |-> 700, road |-> 332]
\* norm.pdf(norm.ppf(alpha)) for a service level alpha (in per cent), times 10^5
Density == [a \in {90, 95} |-> IF a = 90 THEN 17550 ELSE 10314]
\* the per-mode table a caller passes as data, as the default one (the
\* columns next to the index "transportation")
DataDefault == [t |-> tau0]
PenaltyM == 100000000                     \* the big-M of the slack formulation

\* emission of one flow unit over dist (x100 km) by mode mo, 10^-6 t
TrCO2(mo, dist) == (co2_emission_factor[mo] * dist * product_weight) \div 1000
\* transport cost of one flow unit, cents
TrCost(t, mo, dist) == (t[mo] * dist * product_weight) \div 1000

\* ------------------------------------------------------------ the state
VARIABLES
    builder,      \* which builder is being called
    args,         \* the caller's arguments
    pc,           \* position in the builder
    sets,         \* resolved node and mode lists
    vars,         \* the variable families f1, f2, f2_new, f2_2_bin, f3, v
    exprs,        \* the named linear expressions
    constrs,      \* the constraints added to the solver model
    objective,    \* the objective expression handed to setObjective
    X,            \* the solver's answer: an assignment of the variables, or NoSol
    ObjBound,     \* the minimum of the objective over the feasible set
    results,      \* the results mapping the call returns: empty until it returns
    caller,       \* the caller's objects passed as data and sourcing_cost, as they stand
    dash,         \* the Total.py dashboard: its inputs and one press of Run Optimization
    sweep         \* one run of simulate_scenarios_full

state == <<builder, args, pc, sets, vars, exprs, constrs, objective, X, ObjBound, results, caller,
           dash, sweep>>

NoSol == <<>>
NoResults == {}

Builders == {"MASTER", "Scenario_Setting_For_SC1F", "Scenario_Setting_For_SC2F_uns", "SC1F"}

ExprNames == {"Transport_L1", "Transport_L2", "Transport_L2_new", "Transport_L3",
              "LastMile_Cost", "Handling_L2", "Handling_L3", "Sourcing_L1",
              "Cost_NewLoc_var", "Cost_NewLoc_fixed",
              "InvCost_L1", "InvCost_L2", "InvCost_L2_new", "InvCost_L3",
              "CO2_Mfg", "CO2_prod_L1", "CO2_prod_new",
              "CO2_tr_L1", "CO2_tr_L2", "CO2_tr_L2_new", "CO2_tr_L3",
              "LastMile_CO2", "Total_CO2", "Total_Transport", "CO2Cost_L2_2"}

NoExprs == [e \in ExprNames |-> {}]
NoSets == [Plants |-> <<>>, Crossdocks |-> <<>>, New_Locs |-> <<>>, Dcs |-> <<>>,
           Retailers |-> {}, ModesL1 |-> <<>>, ModesL2 |-> <<>>, ModesL3 |-> <<>>]
NoVars == [f1 |-> {}, f2 |-> {}, f2_new |-> {}, f2_2_bin |-> {}, f3 |-> {}, v |-> {}]

\* all flow variables of a model
FlowVars(V) == V.f1 \cup V.f2 \cup V.f2_new \cup V.f3
AllVars(V) == FlowVars(V) \cup V.f2_2_bin \cup V.v

\* ------------------------------------------------ MASTER: sets and modes
Pick(active, all) == IF active = None THEN all ELSE active

\* MASTER.py 99-104, 292-298: the five switches isHUDTG .. isPLZCA, by the
\* location each one stands for
newloc_names == <<"HUDTG", "CZMCT", "IEILG", "FIMPF", "PLZCA">>

\* what a caller passes for a switch: nothing, a bool, or the number 0
FlagValues == {"None", "True", "False", "0"}
NoFlags == [n \in Range(newloc_names) |-> "None"]

\* Python's bool(v)
bool(v) == v = "True"

\* variant: only a switch that is explicitly off removes its location
SelectNewLocs_KeepUnset(base, flags) ==
    SelectSeq(base, LAMBDA n : n \notin DOMAIN flags \/ flags[n] = "None" \/ bool(flags[n]))

\* MASTER.py 300-306: once any switch is given, the switches gate the base
\* selection; with none given the base selection stays
SelectNewLocs(base, flags) ==
    IF \E k \in DOMAIN flags : flags[k] # "None"
    THEN LET selected == {k \in DOMAIN flags : bool(flags[k])}
         IN  SelectSeq(base, LAMBDA n : n \in selected)
    ELSE base

\* MASTER.py 286-329: active_* lists, defaults, the switches on the new
\* locations, volcano removes "air"
MasterSets(a) ==
    LET m1 == Pick(a.active_modes_L1, ModesL1_default)
        m2 == Pick(a.active_modes_L2, ModesL2_default)
        m3 == Pick(a.active_modes_L3, ModesL3_default)
    IN  [Plants     |-> Pick(a.active_plants, Plants_all),
         Crossdocks |-> Pick(a.active_crossdocks, Crossdocks_all),
         New_Locs   |-> SelectNewLocs(Pick(a.active_new_locs, New_Locs_all), a.newloc_flags),
         Dcs        |-> Pick(a.active_dcs, Dcs_all),
         Retailers  |-> DOMAIN a.demand,
         ModesL1    |-> IF a.volcano THEN Remove(m1, "air") ELSE m1,
         ModesL2    |-> IF a.volcano THEN Remove(m2, "air") ELSE m2,
         ModesL3    |-> IF a.volcano THEN Remove(m3, "air") ELSE m3]

\* variant: one mode list (that of layer 2) serves every layer
MasterVars_SharedModes(S) ==
    LET P == Range(S.Plants)      C == Range(S.Crossdocks)
        N == Range(S.New_Locs)    D == Range(S.Dcs)
        R == S.Retailers
        M2 == Range(S.ModesL2)
        on == Len(S.ModesL2) > 0
        newOn == Len(S.New_Locs) > 0 /\ Len(S.Dcs) > 0 /\ on
    IN  [f1 |-> IF Len(S.Plants) > 0 /\ Len(S.Crossdocks) > 0 /\ on
                THEN {Var("f1", p, c, mo) : p \in P, c \in C, mo \in M2} ELSE {},
         f2 |-> IF Len(S.Crossdocks) > 0 /\ Len(S.Dcs) > 0 /\ on
                THEN {Var("f2", c, d, mo) : c \in C, d \in D, mo \in M2} ELSE {},
         f2_new |-> IF newOn
                THEN {Var("f2_2", n, d, mo) : n \in N, d \in D, mo \in M2} ELSE {},
         f2_2_bin |-> IF newOn THEN {BinVar(n) : n \in N} ELSE {},
         f3 |-> IF Len(S.Dcs) > 0 /\ R # {} /\ on
                THEN {Var("f3", d, r, mo) : d \in D, r \in R, mo \in M2} ELSE {},
         v  |-> {}]

\* MASTER.py 359-395: a family is created only when its three index lists
\* are all non-empty
MasterVars(S) ==
    LET P == Range(S.Plants)      C == Range(S.Crossdocks)
        N == Range(S.New_Locs)    D == Range(S.Dcs)
        R == S.Retailers
        M1 == Range(S.ModesL1)    M2 == Range(S.ModesL2)   M3 == Range(S.ModesL3)
        newOn == Len(S.New_Locs) > 0 /\ Len(S.Dcs) > 0 /\ Len(S.ModesL2) > 0
    IN  [f1 |-> IF Len(S.Plants) > 0 /\ Len(S.Crossdocks) > 0 /\ Len(S.ModesL1) > 0
                THEN {Var("f1", p, c, mo) : p \in P, c \in C, mo \in M1} ELSE {},
         f2 |-> IF Len(S.Crossdocks) > 0 /\ Len(S.Dcs) > 0 /\ Len(S.ModesL2) > 0
                THEN {Var("f2", c, d, mo) : c \in C, d \in D, mo \in M2} ELSE {},
         f2_new |-> IF newOn
                THEN {Var("f2_2", n, d, mo) : n \in N, d \in D, mo \in M2} ELSE {},
         f2_2_bin |-> IF newOn THEN {BinVar(n) : n \in N} ELSE {},
         f3 |-> IF Len(S.Dcs) > 0 /\ R # {} /\ Len(S.ModesL3) > 0
                THEN {Var("f3", d, r, mo) : d \in D, r \in R, mo \in M3} ELSE {},
         v  |-> {}]

\* total demand, the divisor of the safety-stock term
RECURSIVE SumOver(_, _)
SumOver(f, S) == IF S = {} THEN 0
                 ELSE LET x == CHOOSE y \in S : TRUE IN f[x] + SumOver(f, S \ {x})
total_demand(a) == SumOver(a.demand, DOMAIN a.demand)

\* LT * h + SS / total_demand with the hard-coded SS column
\* (Scenario_Setting_For_SC1F.py 139, 329-333, Scenario_Setting_For_SC2F_uns.py 126, 339-343)
InvCoef(a, mo) == LT_h[mo] + SS[mo] \div total_demand(a)

\* np.std of the demand values (population standard deviation, rounded down)
ISqrt(n) == CHOOSE k \in 0..n : k * k <= n /\ (k + 1) * (k + 1) > n
std_demand(a) ==
    LET R == DOMAIN a.demand
        n == Cardinality(R)
        sq == SumOver([r \in R |-> a.demand[r] * a.demand[r]], R)
        tot == total_demand(a)
    IN  ISqrt((n * sq - tot * tot) \div (n * n))

\* MASTER.py 222-232: SS = sqrt(LT + 1) * std_demand * (p + h) * phi(z), p = 0
SS_vals(a) ==
    [m \in DOMAIN SqrtLT1 |->
        (((SqrtLT1[m] * unit_inventory_holdingCost) \div 100) * std_demand(a)
            * Density[a.service_level]) \div 100000]

\* MASTER.py 185-232: the frame df is built from data before line 235; the
\* columns LT and SS are computed only when data brings no SS column
FrameHasLT(a) == a.data = NoMapping \/ "LT" \in DOMAIN a.data \/ "SS" \notin DOMAIN a.data
FrameSS(a) == IF a.data # NoMapping /\ "SS" \in DOMAIN a.data THEN a.data.SS ELSE SS_vals(a)

\* MASTER.py 503-506: df LT * h + df SS / total_demand
MasterInvCoef(a, mo) == LT_h[mo] + FrameSS(a)[mo] \div total_demand(a)

\* MASTER.py 235 and 340-343: the caller's data mapping receives the
\* hard-coded SS column, the caller's sourcing_cost mapping is multiplied in
\* place by the tariff (a mapping built from the defaults is local)
MasterArguments(a) ==
    [data |-> IF a.data = NoMapping THEN NoMapping
              ELSE [c \in DOMAIN a.data \cup {"SS"} |-> IF c = "SS" THEN SS ELSE a.data[c]],
     sourcing_cost |-> IF a.sourcing_cost = NoMapping \/ ~a.trade_war THEN a.sourcing_cost
                       ELSE [p \in DOMAIN a.sourcing_cost |->
                                (a.sourcing_cost[p] * a.tariff_rate) \div 100]]

\* MASTER.py 335-338: the oil crisis raises every transport rate by 30 %
MasterTau(a) == IF a.oil_crises THEN [m \in DOMAIN tau0 |-> (tau0[m] * 13) \div 10] ELSE tau0
\* MASTER.py 340-343: the trade war multiplies the sourcing cost (tariff in %)
MasterSourcing(a) ==
    LET sourcing_cost == IF a.sourcing_cost = NoMapping THEN sourcing_cost0 ELSE a.sourcing_cost
    IN  IF a.trade_war
        THEN [p \in DOMAIN sourcing_cost |-> (sourcing_cost[p] * a.tariff_rate) \div 100]
        ELSE sourcing_cost

\* MASTER.py 401-611: the tables are indexed (dict[key], DataFrame.loc) for
\* the members of the lists of a family only where that family exists; a
\* key a table does not hold raises KeyError
MasterLookupFails(a, S, V) ==
    LET P == Range(S.Plants)      C == Range(S.Crossdocks)
        N == Range(S.New_Locs)    D == Range(S.Dcs)
        R == S.Retailers
        BadMode(mo) == mo \notin DOMAIN tau0 \/ mo \notin DOMAIN co2_emission_factor
                       \/ mo \notin DOMAIN LT_h \/ mo \notin DOMAIN SS
    IN  \/ FlowVars(V) # {} /\ ~FrameHasLT(a)
        \/ /\ V.f1 # {}
           /\ \/ \E mo \in Range(S.ModesL1) : BadMode(mo)
              \/ \E p \in P : \/ p \notin DOMAIN dist1 \/ p \notin DOMAIN sourcing_cost0
                              \/ p \notin DOMAIN co2_prod_kg_per_unit
              \/ \E p \in P \cap DOMAIN dist1 : \E c \in C : c \notin DOMAIN dist1[p]
        \/ /\ V.f2 # {}
           /\ \/ \E mo \in Range(S.ModesL2) : BadMode(mo)
              \/ \E c \in C : c \notin DOMAIN dist2 \/ c \notin DOMAIN handling_crossdock
              \/ \E c \in C \cap DOMAIN dist2 : \E d \in D : d \notin DOMAIN dist2[c]
        \/ /\ V.f2_new # {}
           /\ \/ \E mo \in Range(S.ModesL2) : BadMode(mo)
              \/ \E n \in N : \/ n \notin DOMAIN dist2_new \/ n \notin DOMAIN new_loc_unitCost
                              \/ n \notin DOMAIN new_loc_openingCost
                              \/ n \notin DOMAIN new_loc_CO2
              \/ \E n \in N \cap DOMAIN dist2_new : \E d \in D : d \notin DOMAIN dist2_new[n]
        \/ /\ V.f3 # {}
           /\ \/ \E mo \in Range(S.ModesL3) : BadMode(mo)
              \/ \E d \in D : d \notin DOMAIN dist3 \/ d \notin DOMAIN handling_dc
              \/ \E d \in D \cap DOMAIN dist3 : \E r \in R : r \notin DOMAIN dist3[d]

\* MASTER.py 401-618: every expression is 0 (no term) unless its family exists
MasterExprs(a, S, V) ==
    LET P == Range(S.Plants)      C == Range(S.Crossdocks)
        N == Range(S.New_Locs)    D == Range(S.Dcs)
        R == S.Retailers
        M1 == Range(S.ModesL1)    M2 == Range(S.ModesL2)   M3 == Range(S.ModesL3)
        t == MasterTau(a)
        src == MasterSourcing(a)
        on1 == V.f1 # {}   on2 == V.f2 # {}   onN == V.f2_new # {}   on3 == V.f3 # {}
        E == [e \in ExprNames |->
            CASE e = "Transport_L1" -> IF on1 THEN
                    {Term(Var("f1", p, c, mo), TrCost(t, mo, dist1[p][c]), e) : p \in P, c \in C, mo \in M1} ELSE {}
              [] e = "Transport_L2" -> IF on2 THEN
                    {Term(Var("f2", c, d, mo), TrCost(t, mo, dist2[c][d]), e) : c \in C, d \in D, mo \in M2} ELSE {}
              [] e = "Transport_L2_new" -> IF onN THEN
                    {Term(Var("f2_2", n, d, mo), TrCost(t, mo, dist2_new[n][d]), e) : n \in N, d \in D, mo \in M2} ELSE {}
              [] e = "Transport_L3" -> IF on3 THEN
                    {Term(Var("f3", d, r, mo), TrCost(t, mo, dist3[d][r]), e) : d \in D, r \in R, mo \in M3} ELSE {}
              [] e = "LastMile_Cost" -> IF on3 THEN
                    {Term(Var("f3", d, r, mo), lastmile_unit_cost, e) : d \in D, r \in R, mo \in M3} ELSE {}
              [] e = "Handling_L2" -> IF on2 THEN
                    {Term(Var("f2", c, d, mo), handling_crossdock[c], e) : c \in C, d \in D, mo \in M2} ELSE {}
              [] e = "Handling_L3" -> IF on3 THEN
                    {Term(Var("f3", d, r, mo), handling_dc[d], e) : d \in D, r \in R, mo \in M3} ELSE {}
              [] e = "Sourcing_L1" -> IF on1 THEN
                    {Term(Var("f1", p, c, mo), src[p], e) : p \in P, c \in C, mo \in M1} ELSE {}
              [] e = "Cost_NewLoc_var" -> IF onN THEN
                    {Term(Var("f2_2", n, d, mo), new_loc_unitCost[n], e) : n \in N, d \in D, mo \in M2} ELSE {}
              [] e = "Cost_NewLoc_fixed" -> IF V.f2_2_bin # {} THEN
                    {Term(BinVar(n), new_loc_openingCost[n], e) : n \in N} ELSE {}
              [] e = "InvCost_L1" -> IF on1 THEN
                    {Term(Var("f1", p, c, mo), MasterInvCoef(a, mo), e) : p \in P, c \in C, mo \in M1} ELSE {}
              [] e = "InvCost_L2" -> IF on2 THEN
                    {Term(Var("f2", c, d, mo), MasterInvCoef(a, mo), e) : c \in C, d \in D, mo \in M2} ELSE {}
              [] e = "InvCost_L2_new" -> IF onN THEN
                    {Term(Var("f2_2", n, d, mo), MasterInvCoef(a, mo), e) : n \in N, d \in D, mo \in M2} ELSE {}
              [] e = "InvCost_L3" -> IF on3 THEN
                    {Term(Var("f3", d, r, mo), MasterInvCoef(a, mo), e) : d \in D, r \in R, mo \in M3} ELSE {}
              [] e = "CO2_prod_L1" -> IF on1 THEN
                    {Term(Var("f1", p, c, mo), co2_prod_kg_per_unit[p] * 100, e) : p \in P, c \in C, mo \in M1} ELSE {}
              [] e = "CO2_prod_new" -> IF onN THEN
                    {Term(Var("f2_2", n, d, mo), new_loc_CO2[n] * 100, e) : n \in N, d \in D, mo \in M2} ELSE {}
              [] e = "CO2_tr_L1" -> IF on1 THEN
                    {Term(Var("f1", p, c, mo), TrCO2(mo, dist1[p][c]), e) : p \in P, c \in C, mo \in M1} ELSE {}
              [] e = "CO2_tr_L2" -> IF on2 THEN
                    {Term(Var("f2", c, d, mo), TrCO2(mo, dist2[c][d]), e) : c \in C, d \in D, mo \in M2} ELSE {}
              [] e = "CO2_tr_L2_new" -> IF onN THEN
                    {Term(Var("f2_2", n, d, mo), TrCO2(mo, dist2_new[n][d]), e) : n \in N, d \in D, mo \in M2} ELSE {}
              [] e = "CO2_tr_L3" -> IF on3 THEN
                    {Term(Var("f3", d, r, mo), TrCO2(mo, dist3[d][r]), e) : d \in D, r \in R, mo \in M3} ELSE {}
              [] e = "LastMile_CO2" -> IF on3 THEN
                    {Term(Var("f3", d, r, mo), lastmile_CO2_kg, e) : d \in D, r \in R, mo \in M3} ELSE {}
              [] OTHER -> {}]
    IN  [E EXCEPT
          !["Total_Transport"] = E["Transport_L1"] \cup E["Transport_L2"]
                                 \cup E["Transport_L2_new"] \cup E["Transport_L3"],
          \* MASTER.py 613
          !["Total_CO2"] = E["CO2_prod_L1"] \cup E["CO2_prod_new"] \cup E["CO2_tr_L1"]
                           \cup E["CO2_tr_L2"] \cup E["CO2_tr_L2_new"] \cup E["CO2_tr_L3"]
                           \cup E["LastMile_CO2"],
          \* MASTER.py 616-618: euro/ton times the production emissions
          !["CO2_Mfg"] =
              {Term(tm.var, (co2_cost_per_ton * tm.coef) \div 1000000, "CO2_Mfg") : tm \in E["CO2_prod_L1"]}
              \cup {Term(tm.var, (co2_cost_per_ton_New * tm.coef) \div 1000000, "CO2_Mfg") : tm \in E["CO2_prod_new"]}]

\* ---------------------------------------------------- MASTER: constraints
Constr(name, idx, lhs, sense, rhs) ==
    [name |-> name, idx |-> idx, lhs |-> lhs, sense |-> sense, rhs |-> rhs]

\* quicksum(fam[key] for key in keys) with coefficient k on every variable
Sum(keys, k, part) == {Term(x, k, part) : x \in keys}

\* the right-hand side CO2_base * (1 - CO_2_percentage), times 100
\* (CO_2_percentage is held in per cent)
CO2Cap(a) == a.CO2_base * (100 - a.CO_2_percentage)

\* variant: the new locations' flows are left out of the capped total
CO2ReductionTarget_NoNewLocs(a, E) ==
    Constr("CO2ReductionTarget", <<>>,
           {Term(tm.var, 100 * tm.coef, tm.part) : tm \in {t \in E["Total_CO2"] : t.var[1] # "f2_2"}},
           "<=", CO2Cap(a))

\* Total_CO2 <= CO2_base * (1 - CO_2_percentage): MASTER.py 683-686,
\* Scenario_Setting_For_SC1F.py 450-453, Scenario_Setting_For_SC2F_uns.py 509-512
CO2ReductionTarget(a, E) ==
    Constr("CO2ReductionTarget", <<>>,
           {Term(tm.var, 100 * tm.coef, tm.part) : tm \in E["Total_CO2"]}, "<=", CO2Cap(a))

\* MASTER.py 624-632
MasterDemand(a, S, V) ==
    IF V.f3 # {} THEN
        {Constr("Demand", <<r>>,
                Sum({Var("f3", d, r, mo) : d \in Range(S.Dcs), mo \in Range(S.ModesL3)}, 1, "in"),
                ">=", a.demand[r]) : r \in S.Retailers}
    ELSE {}

\* MASTER.py 634-645
MasterDCBalance(a, S, V) ==
    IF V.f3 # {} THEN
        {Constr("DCBalance", <<d>>,
                Sum({Var("f2", c, d, mo) : c \in Range(S.Crossdocks), mo \in Range(S.ModesL2)}, 1, "in")
                \cup Sum({Var("f2_2", n, d, mo) : n \in Range(S.New_Locs), mo \in Range(S.ModesL2)}, 1, "in")
                \cup Sum({Var("f3", d, r, mo) : r \in S.Retailers, mo \in Range(S.ModesL3)}, -1, "out"),
                "==", 0) : d \in Range(S.Dcs)}
    ELSE {}

\* MASTER.py 647-657
MasterCrossdockBalance(a, S, V) ==
    IF V.f1 # {} /\ V.f2 # {} THEN
        {Constr("CrossdockBalance", <<c>>,
                Sum({Var("f1", p, c, mo) : p \in Range(S.Plants), mo \in Range(S.ModesL1)}, 1, "in")
                \cup Sum({Var("f2", c, d, mo) : d \in Range(S.Dcs), mo \in Range(S.ModesL2)}, -1, "out"),
                "==", 0) : c \in Range(S.Crossdocks)}
    ELSE {}

\* MASTER.py 659-668
MasterDCCapacity(a, S, V) ==
    IF V.f3 # {} THEN
        {Constr("DCCapacity", <<d>>,
                Sum({Var("f3", d, r, mo) : r \in S.Retailers, mo \in Range(S.ModesL3)}, 1, "out"),
                "<=", a.dc_capacity[d]) : d \in Range(S.Dcs)}
    ELSE {}

\* MASTER.py 670-679
MasterNewLocCapacity(a, S, V) ==
    IF V.f2_new # {} /\ V.f2_2_bin # {} THEN
        {Constr("NewLocCapacity", <<n>>,
                Sum({Var("f2_2", n, d, mo) : d \in Range(S.Dcs), mo \in Range(S.ModesL2)}, 1, "out")
                \cup {Term(BinVar(n), 0 - a.new_loc_capacity[n], "open")},
                "<=", 0) : n \in Range(S.New_Locs)}
    ELSE {}

\* MASTER.py 688: quicksum(f2_2_bin[n] for n in New_Locs) == len(New_Locs)
MasterAllOpen(a, S, V) ==
    {Constr("R_688", <<>>, Sum({BinVar(n) : n \in Range(S.New_Locs)}, 1, "open"),
            "==", Len(S.New_Locs))}

\* the variables a constraint or expression indexes
VarsOf(lhs) == {tm.var : tm \in lhs}
VarsOfAll(C) == UNION {VarsOf(c.lhs) : c \in C}

\* MASTER.py 624-688 as a whole
MasterConstrs(a, S, V, E) ==
    MasterDemand(a, S, V) \cup MasterDCBalance(a, S, V) \cup MasterCrossdockBalance(a, S, V)
    \cup MasterDCCapacity(a, S, V) \cup MasterNewLocCapacity(a, S, V)
    \cup {CO2ReductionTarget(a, E)} \cup MasterAllOpen(a, S, V)

\* f2_2_bin[n] is indexed at line 688 for every n of New_Locs, f2_2_bin being
\* the empty dict when the new-location family was not created: KeyError
MasterKeyError(S, V) == \E n \in Range(S.New_Locs) : BinVar(n) \notin V.f2_2_bin

\* MASTER.py 659-679: dc_capacity[d] and new_loc_capacity[n] are indexed
\* where the f3 and the new-location families exist
MasterCapacityKeyError(a, S, V) ==
    \/ V.f3 # {} /\ \E d \in Range(S.Dcs) : d \notin DOMAIN a.dc_capacity
    \/ V.f2_new # {} /\ \E n \in Range(S.New_Locs) : n \notin DOMAIN a.new_loc_capacity

\* With no family at all Total_CO2 is the int 0, and line 683 hands the Python
\* bool (0 <= cap) to addConstr instead of a constraint
MasterBoolConstr(V) == FlowVars(V) = {}

\* what section 6 of MASTER adds when it runs to its end
MasterAdded(a, S, V, E) ==
    MasterConstrs(a, S, V, E) \ (IF MasterBoolConstr(V) THEN {CO2ReductionTarget(a, E)} ELSE {})

\* MASTER.py 693-741: Suez blocks sea on L1; volcano blocks air still listed
MasterEventConstrs(a, S, V) ==
    (IF a.suez_canal /\ V.f1 # {} /\ "sea" \in Range(S.ModesL1) THEN
        {Constr("SeaDamage_f1", <<p, c>>, {Term(Var("f1", p, c, "sea"), 1, "blocked")}, "==", 0)
            : p \in Range(S.Plants), c \in Range(S.Crossdocks)}
     ELSE {})
    \cup
    (IF a.volcano /\ V.f1 # {} /\ "air" \in Range(S.ModesL1) THEN
        {Constr("Volcano_block_f1", <<p, c>>, {Term(Var("f1", p, c, "air"), 1, "blocked")}, "==", 0)
            : p \in Range(S.Plants), c \in Range(S.Crossdocks)}
     ELSE {})
    \cup
    (IF a.volcano /\ V.f2 # {} /\ "air" \in Range(S.ModesL2) THEN
        {Constr("Volcano_block_f2", <<c, d>>, {Term(Var("f2", c, d, "air"), 1, "blocked")}, "==", 0)
            : c \in Range(S.Crossdocks), d \in Range(S.Dcs)}
     ELSE {})
    \cup
    (IF a.volcano /\ V.f2_new # {} /\ "air" \in Range(S.ModesL2) THEN
        {Constr("Volcano_block_f2_new", <<n, d>>, {Term(Var("f2_2", n, d, "air"), 1, "blocked")}, "==", 0)
            : n \in Range(S.New_Locs), d \in Range(S.Dcs)}
     ELSE {})
    \cup
    (IF a.volcano /\ V.f3 # {} /\ "air" \in Range(S.ModesL3) THEN
        {Constr("Volcano_block_f3", <<d, r>>, {Term(Var("f3", d, r, "air"), 1, "blocked")}, "==", 0)
            : d \in Range(S.Dcs), r \in S.Retailers}
     ELSE {})

\* MASTER.py 747-757
MasterObjective(E) ==
    E["Sourcing_L1"] \cup E["Handling_L2"] \cup E["Handling_L3"] \cup E["LastMile_Cost"]
    \cup E["CO2_Mfg"] \cup E["Total_Transport"]
    \cup E["InvCost_L1"] \cup E["InvCost_L2"] \cup E["InvCost_L2_new"] \cup E["InvCost_L3"]
    \cup E["Cost_NewLoc_var"] \cup E["Cost_NewLoc_fixed"]

\* ------------------------------------------- the fixed-network builders
\* (Scenario_Setting_For_SC1F.py, SC1F.py, Scenario_Setting_For_SC2F_uns.py)
\* The expressions the slack builder calls CO2_prod_L2_2, CO2_tr_L2_2,
\* Transport_L2_2, InvCost_L2_2, ProdCost_NewLocs and FixedCost_NewLocs are
\* held under MASTER's names CO2_prod_new, CO2_tr_L2_new, Transport_L2_new,
\* InvCost_L2_new, Cost_NewLoc_var and Cost_NewLoc_fixed.
HasNewLocs(b) == b = "Scenario_Setting_For_SC2F_uns"

\* Scenario_Setting_For_SC1F.py 142-148, Scenario_Setting_For_SC2F_uns.py 129-135;
\* the one list Modes serves layers 2 and 3
FixedSets(a) ==
    [Plants |-> Plants_all, Crossdocks |-> Crossdocks_all, New_Locs |-> New_Locs_all,
     Dcs |-> Dcs_all, Retailers |-> DOMAIN a.demand,
     ModesL1 |-> <<"air", "sea">>,
     ModesL2 |-> <<"air", "sea", "road">>,
     ModesL3 |-> <<"air", "sea", "road">>]

\* Scenario_Setting_For_SC1F.py 212-221, Scenario_Setting_For_SC2F_uns.py 195-211
FixedVars(b, S) ==
    LET P == Range(S.Plants)      C == Range(S.Crossdocks)
        N == Range(S.New_Locs)    D == Range(S.Dcs)
        R == S.Retailers
        M1 == Range(S.ModesL1)    M == Range(S.ModesL2)
    IN  [f1 |-> {Var("f1", p, c, mo) : p \in P, c \in C, mo \in M1},
         f2 |-> {Var("f2", c, d, mo) : c \in C, d \in D, mo \in M},
         f2_new |-> IF HasNewLocs(b) THEN {Var("f2_2", n, d, mo) : n \in N, d \in D, mo \in M} ELSE {},
         f2_2_bin |-> IF HasNewLocs(b) THEN {BinVar(n) : n \in N} ELSE {},
         f3 |-> {Var("f3", d, r, mo) : d \in D, r \in R, mo \in M},
         v  |-> IF HasNewLocs(b) THEN {SlackVar(r) : r \in R} ELSE {}]

\* Scenario_Setting_For_SC1F.py 228-406, Scenario_Setting_For_SC2F_uns.py 219-452
FixedExprs(b, a, S, V) ==
    LET P == Range(S.Plants)      C == Range(S.Crossdocks)
        N == Range(S.New_Locs)    D == Range(S.Dcs)
        R == S.Retailers
        M1 == Range(S.ModesL1)    M == Range(S.ModesL2)
        nl == HasNewLocs(b)
        E == [e \in ExprNames |->
            CASE e = "Transport_L1" ->
                    {Term(Var("f1", p, c, mo), TrCost(tau0, mo, dist1[p][c]), e) : p \in P, c \in C, mo \in M1}
              [] e = "Transport_L2" ->
                    {Term(Var("f2", c, d, mo), TrCost(tau0, mo, dist2[c][d]), e) : c \in C, d \in D, mo \in M}
              [] e = "Transport_L2_new" -> IF nl THEN
                    {Term(Var("f2_2", n, d, mo), TrCost(tau0, mo, dist2_new[n][d]), e) : n \in N, d \in D, mo \in M} ELSE {}
              [] e = "Transport_L3" ->
                    {Term(Var("f3", d, r, mo), TrCost(tau0, mo, dist3[d][r]), e) : d \in D, r \in R, mo \in M}
              [] e = "LastMile_Cost" ->
                    {Term(Var("f3", d, r, mo), lastmile_unit_cost, e) : d \in D, r \in R, mo \in M}
              [] e = "Handling_L2" ->
                    {Term(Var("f2", c, d, mo), handling_crossdock[c], e) : c \in C, d \in D, mo \in M}
              [] e = "Handling_L3" ->
                    {Term(Var("f3", d, r, mo), handling_dc[d], e) : d \in D, r \in R, mo \in M}
              [] e = "Sourcing_L1" ->
                    {Term(Var("f1", p, c, mo), sourcing_cost0[p], e) : p \in P, c \in C, mo \in M1}
              [] e = "Cost_NewLoc_var" -> IF nl THEN
                    {Term(Var("f2_2", n, d, mo), new_loc_unitCost[n], e) : n \in N, d \in D, mo \in M} ELSE {}
              [] e = "Cost_NewLoc_fixed" -> IF nl THEN
                    {Term(BinVar(n), new_loc_openingCost[n] + new_loc_operationCost[n], e) : n \in N} ELSE {}
              [] e = "InvCost_L1" ->
                    {Term(Var("f1", p, c, mo), InvCoef(a, mo), e) : p \in P, c \in C, mo \in M1}
              [] e = "InvCost_L2" ->
                    {Term(Var("f2", c, d, mo), InvCoef(a, mo), e) : c \in C, d \in D, mo \in M}
              [] e = "InvCost_L2_new" -> IF nl THEN
                    {Term(Var("f2_2", n, d, mo), InvCoef(a, mo), e) : n \in N, d \in D, mo \in M} ELSE {}
              [] e = "InvCost_L3" ->
                    {Term(Var("f3", d, r, mo), InvCoef(a, mo), e) : d \in D, r \in R, mo \in M}
              [] e = "CO2_Mfg" ->
                    {Term(Var("f1", p, c, mo), (co2_cost_per_ton * co2_prod_kg_per_unit[p]) \div 10000, e)
                        : p \in P, c \in C, mo \in M1}
              [] e = "CO2Cost_L2_2" -> IF nl THEN
                    {Term(Var("f2_2", n, d, mo), (co2_cost_per_ton_New * new_loc_CO2[n]) \div 10000, e)
                        : n \in N, d \in D, mo \in M} ELSE {}
              [] e = "CO2_prod_L1" ->
                    {Term(Var("f1", p, c, mo), co2_prod_kg_per_unit[p] * 100, e) : p \in P, c \in C, mo \in M1}
              [] e = "CO2_prod_new" -> IF nl THEN
                    {Term(Var("f2_2", n, d, mo), new_loc_CO2[n] * 100, e) : n \in N, d \in D, mo \in M} ELSE {}
              [] e = "CO2_tr_L1" ->
                    {Term(Var("f1", p, c, mo), TrCO2(mo, dist1[p][c]), e) : p \in P, c \in C, mo \in M1}
              [] e = "CO2_tr_L2" ->
                    {Term(Var("f2", c, d, mo), TrCO2(mo, dist2[c][d]), e) : c \in C, d \in D, mo \in M}
              [] e = "CO2_tr_L2_new" -> IF nl THEN
                    {Term(Var("f2_2", n, d, mo), TrCO2(mo, dist2_new[n][d]), e) : n \in N, d \in D, mo \in M} ELSE {}
              [] e = "CO2_tr_L3" ->
                    {Term(Var("f3", d, r, mo), TrCO2(mo, dist3[d][r]), e) : d \in D, r \in R, mo \in M}
              [] e = "LastMile_CO2" ->
                    {Term(Var("f3", d, r, mo), lastmile_CO2_kg, e) : d \in D, r \in R, mo \in M}
              [] OTHER -> {}]
    IN  [E EXCEPT
          !["Total_Transport"] = E["Transport_L1"] \cup E["Transport_L2"]
                                 \cup E["Transport_L2_new"] \cup E["Transport_L3"],
          \* Scenario_Setting_For_SC1F.py 254, Scenario_Setting_For_SC2F_uns.py 255
          !["Total_CO2"] = E["CO2_prod_L1"] \cup E["CO2_prod_new"] \cup E["CO2_tr_L1"]
                           \cup E["CO2_tr_L2"] \cup E["CO2_tr_L3"] \cup E["LastMile_CO2"]
                           \cup E["CO2_tr_L2_new"]]

\* variant: the slack builder's demand rows have no slack term
FixedDemand_NoSlack(b, a, S) ==
    {Constr(IF HasNewLocs(b) THEN "DemandWithSlack" ELSE "Demand", <<r>>,
            Sum({Var("f3", d, r, mo) : d \in Range(S.Dcs), mo \in Range(S.ModesL3)}, 1, "in"),
            IF HasNewLocs(b) THEN "==" ELSE ">=", a.demand[r]) : r \in S.Retailers}

\* variant: the demand rows of the builders without slack are "<="
FixedDemand_AtMost(b, a, S) ==
    {Constr(IF HasNewLocs(b) THEN "DemandWithSlack" ELSE "Demand", <<r>>,
            Sum({Var("f3", d, r, mo) : d \in Range(S.Dcs), mo \in Range(S.ModesL3)}, 1, "in")
            \cup (IF HasNewLocs(b) THEN {Term(SlackVar(r), 1, "slack")} ELSE {}),
            IF HasNewLocs(b) THEN "==" ELSE "<=", a.demand[r]) : r \in S.Retailers}

\* Scenario_Setting_For_SC1F.py 414-419 (also SC1F.py 356-361): demand as >=;
\* Scenario_Setting_For_SC2F_uns.py 460-467: demand with the slack v[r], as ==
FixedDemand(b, a, S) ==
    {Constr(IF HasNewLocs(b) THEN "DemandWithSlack" ELSE "Demand", <<r>>,
            Sum({Var("f3", d, r, mo) : d \in Range(S.Dcs), mo \in Range(S.ModesL3)}, 1, "in")
            \cup (IF HasNewLocs(b) THEN {Term(SlackVar(r), 1, "slack")} ELSE {}),
            IF HasNewLocs(b) THEN "==" ELSE ">=", a.demand[r]) : r \in S.Retailers}

\* Scenario_Setting_For_SC1F.py 421-429, Scenario_Setting_For_SC2F_uns.py 470-479
FixedDCBalance(b, S) ==
    {Constr("DCBalance", <<d>>,
            Sum({Var("f2", c, d, mo) : c \in Range(S.Crossdocks), mo \in Range(S.ModesL2)}, 1, "in")
            \cup (IF HasNewLocs(b)
                  THEN Sum({Var("f2_2", n, d, mo) : n \in Range(S.New_Locs), mo \in Range(S.ModesL2)}, 1, "in")
                  ELSE {})
            \cup Sum({Var("f3", d, r, mo) : r \in S.Retailers, mo \in Range(S.ModesL3)}, -1, "out"),
            "==", 0) : d \in Range(S.Dcs)}

\* Scenario_Setting_For_SC1F.py 432-438, Scenario_Setting_For_SC2F_uns.py 482-488
FixedCrossdockBalance(S) ==
    {Constr("CrossdockBalance", <<c>>,
            Sum({Var("f1", p, c, mo) : p \in Range(S.Plants), mo \in Range(S.ModesL1)}, 1, "in")
            \cup Sum({Var("f2", c, d, mo) : d \in Range(S.Dcs), mo \in Range(S.ModesL2)}, -1, "out"),
            "==", 0) : c \in Range(S.Crossdocks)}

\* variant: the capacity of a new location does not depend on its binary
FixedNewFacilityCapacity_NoBinary(b, a, S) ==
    IF HasNewLocs(b) THEN
        {Constr("NewFacilityCapacity", <<n>>,
                Sum({Var("f2_2", n, d, mo) : d \in Range(S.Dcs), mo \in Range(S.ModesL2)}, 1, "out"),
                "<=", a.new_loc_capacity[n]) : n \in Range(S.New_Locs)}
    ELSE {}

\* Scenario_Setting_For_SC2F_uns.py 490-498
FixedNewFacilityCapacity(b, a, S) ==
    IF HasNewLocs(b) THEN
        {Constr("NewFacilityCapacity", <<n>>,
                Sum({Var("f2_2", n, d, mo) : d \in Range(S.Dcs), mo \in Range(S.ModesL2)}, 1, "out")
                \cup {Term(BinVar(n), 0 - a.new_loc_capacity[n], "open")},
                "<=", 0) : n \in Range(S.New_Locs)}
    ELSE {}

\* Scenario_Setting_For_SC1F.py 442-446, Scenario_Setting_For_SC2F_uns.py 500-505
FixedDCCapacity(a, S) ==
    {Constr("DCCapacity", <<d>>,
            Sum({Var("f3", d, r, mo) : r \in S.Retailers, mo \in Range(S.ModesL3)}, 1, "out"),
            "<=", a.dc_capacity[d]) : d \in Range(S.Dcs)}

FixedConstrs(b, a, S, E) ==
    FixedDemand(b, a, S) \cup FixedDCBalance(b, S) \cup FixedCrossdockBalance(S)
    \cup FixedNewFacilityCapacity(b, a, S) \cup FixedDCCapacity(a, S)
    \cup {CO2ReductionTarget(a, E)}

\* variant: the canal blocks sea on every layer
FixedSuez_AllLayers(a, S) ==
    IF a.suez_canal THEN
        {Constr("SeaDamage_f1", <<p, c>>, {Term(Var("f1", p, c, "sea"), 1, "blocked")}, "==", 0)
            : p \in Range(S.Plants), c \in Range(S.Crossdocks)}
        \cup {Constr("SeaDamage_f2", <<c, d>>, {Term(Var("f2", c, d, "sea"), 1, "blocked")}, "==", 0)
            : c \in Range(S.Crossdocks), d \in Range(S.Dcs)}
        \cup {Constr("SeaDamage_f3", <<d, r>>, {Term(Var("f3", d, r, "sea"), 1, "blocked")}, "==", 0)
            : d \in Range(S.Dcs), r \in S.Retailers}
    ELSE {}

\* Scenario_Setting_For_SC1F.py 461-469, Scenario_Setting_For_SC2F_uns.py 519-527
FixedSuez(a, S) ==
    IF a.suez_canal THEN
        {Constr("SeaDamage_f1", <<p, c>>, {Term(Var("f1", p, c, mo), 1, "blocked")}, "==", 0)
            : p \in Range(S.Plants), c \in Range(S.Crossdocks),
              mo \in {m \in Range(S.ModesL2) : m = "sea"}}
    ELSE {}

\* expr * k / 100
Scaled(expr, k) == {Term(tm.var, (tm.coef * k) \div 100, tm.part) : tm \in expr}

\* Scenario_Setting_For_SC1F.py 475-493, Scenario_Setting_For_SC2F_uns.py 533-551:
\* the oil crisis rebinds Total_Transport and LastMile_Cost, the trade war
\* rebinds Sourcing_L1
FixedEventExprs(a, E) ==
    [E EXCEPT
        !["Total_Transport"] = IF a.oil_crises THEN Scaled(@, 130) ELSE @,
        !["LastMile_Cost"]   = IF a.oil_crises THEN Scaled(@, 130) ELSE @,
        !["Sourcing_L1"]     = IF a.trade_war THEN Scaled(@, a.tariff_rate) ELSE @]

\* Scenario_Setting_For_SC1F.py 484-489, Scenario_Setting_For_SC2F_uns.py 542-547:
\* the volcano removes "air" from the lists Modes and ModesL1
FixedEventSets(a, S) ==
    IF a.volcano THEN
        [S EXCEPT !.ModesL1 = Remove(@, "air"), !.ModesL2 = Remove(@, "air"),
                  !.ModesL3 = Remove(@, "air")]
    ELSE S

\* variant: unmet demand costs nothing
FixedObjective_NoPenalty(b, E, V) ==
    E["Sourcing_L1"] \cup E["Handling_L2"] \cup E["Handling_L3"] \cup E["LastMile_Cost"]
    \cup E["CO2_Mfg"] \cup E["Total_Transport"]
    \cup E["InvCost_L1"] \cup E["InvCost_L2"] \cup E["InvCost_L2_new"] \cup E["InvCost_L3"]
    \cup (IF HasNewLocs(b)
          THEN E["CO2Cost_L2_2"] \cup E["Cost_NewLoc_fixed"] \cup E["Cost_NewLoc_var"]
          ELSE {})

\* Scenario_Setting_For_SC1F.py 499-501, Scenario_Setting_For_SC2F_uns.py 558-566
FixedObjective(b, E, V) ==
    E["Sourcing_L1"] \cup E["Handling_L2"] \cup E["Handling_L3"] \cup E["LastMile_Cost"]
    \cup E["CO2_Mfg"] \cup E["Total_Transport"]
    \cup E["InvCost_L1"] \cup E["InvCost_L2"] \cup E["InvCost_L2_new"] \cup E["InvCost_L3"]
    \cup (IF HasNewLocs(b)
          THEN E["CO2Cost_L2_2"] \cup E["Cost_NewLoc_fixed"] \cup E["Cost_NewLoc_var"]
               \cup Sum(V.v, PenaltyM, "penalty")
          ELSE {})

\* ------------------------------------------------------------ the solver
\* the coefficient of variable y in a linear expression
RECURSIVE CoefSum(_)
CoefSum(T) == IF T = {} THEN 0
              ELSE LET tm == CHOOSE z \in T : TRUE IN tm.coef + CoefSum(T \ {tm})
CoefOf(expr, y) == CoefSum({tm \in expr : tm.var = y})

\* a constraint as the solver holds it: one coefficient for each variable
Row(c) == [vs |-> VarsOf(c.lhs), coef |-> [y \in VarsOf(c.lhs) |-> CoefOf(c.lhs, y)],
           sense |-> c.sense, rhs |-> c.rhs]

\* value of the left-hand side of row r at the assignment x
RECURSIVE RowValue(_, _, _)
RowValue(r, x, S) == IF S = {} THEN 0
                     ELSE LET y == CHOOSE z \in S : TRUE
                          IN  r.coef[y] * x[y] + RowValue(r, x, S \ {y})

Holds(r, x) ==
    LET l == RowValue(r, x, {y \in r.vs : x[y] # 0})
    IN  CASE r.sense = "==" -> l = r.rhs
          [] r.sense = "<=" -> l <= r.rhs
          [] r.sense = ">=" -> l >= r.rhs

Feasible(x, R) == \A r \in R : Holds(r, x)

\* the values a variable may take: flows and slacks are continuous with
\* lb=0 (here the integers up to the bound), the open decisions are binary
Box(V, y) == IF y \in V.f2_2_bin THEN {0, 1}
             ELSE IF y \in V.v THEN 0..MaxDemand
             ELSE 0..MaxFlow

\* the families in the order in which the assignments are enumerated
Stage(V, k) == CASE k = 1 -> V.f3 \cup V.v
                 [] k = 2 -> V.f2_new \cup V.f2_2_bin
                 [] k = 3 -> V.f2
                 [] k = 4 -> V.f1
StagesUpTo(V, k) == UNION {Stage(V, j) : j \in 1..k}

\* the partial assignments over the first k families that satisfy every
\* row all of whose variables they assign
RECURSIVE Extend(_, _, _, _)
Extend(V, R, Ps, k) ==
    IF k > 4 THEN Ps
    ELSE LET done == StagesUpTo(V, k)
             Rk == {r \in R : r.vs \subseteq done /\ ~(r.vs \subseteq StagesUpTo(V, k - 1))}
             Qs == {q \in [Stage(V, k) -> 0..MaxFlow] : \A y \in Stage(V, k) : q[y] \in Box(V, y)}
         IN  Extend(V, R, {x \in {p @@ q : p \in Ps, q \in Qs} : Feasible(x, Rk)}, k + 1)

\* model.optimize(): the feasible set of the model, the assignments of the
\* variables within the box that satisfy every constraint; the solver's
\* answer is one of them
Solutions(V, C) ==
    IF \A c \in C : VarsOf(c.lhs) \subseteq AllVars(V)
    THEN LET R == {Row(c) : c \in C}
         IN  Extend(V, {r \in R : r.vs # {}},
                    IF Feasible(<<>>, {r \in R : r.vs = {}}) THEN {<<>>} ELSE {}, 1)
    ELSE {}

\* value of a linear expression at the assignment x
ExprValue(expr, x) == CoefSum({Term(tm.var, tm.coef * x[tm.var], tm.part) : tm \in expr})

\* variant: the solver maximises
Minimum_Largest(S) == CHOOSE m \in S : \A n \in S : m >= n

Minimum(S) == CHOOSE m \in S : \A n \in S : m <= n

\* sum(expr[mo].getValue() for mo in modes): the per-mode parts of an
\* expression, over the modes the list holds when the record is built
ByModes(expr, modes, x) == ExprValue({tm \in expr : tm.var[4] \in Range(modes)}, x)

\* the per-layer transport costs of the record.  MASTER.py 786-789, 859-862:
\* the values of Total_Transport_L1 .. L3; Scenario_Setting_For_SC1F.py
\* 548-550, Scenario_Setting_For_SC2F_uns.py 627-630, SC1F.py 444-446: the
\* per-mode expressions Transport_Lk[mo], summed over ModesL1 or Modes
TransportKPIs(b, a, E, x) ==
    IF b = "MASTER"
    THEN [k \in {"Transport_L1", "Transport_L2", "Transport_L2_new", "Transport_L3"} |->
             ExprValue(E[k], x)]
    ELSE LET S == FixedEventSets(a, FixedSets(a))
         IN  [k \in (IF HasNewLocs(b)
                     THEN {"Transport_L1", "Transport_L2", "Transport_L2_new", "Transport_L3"}
                     ELSE {"Transport_L1", "Transport_L2", "Transport_L3"}) |->
                 ByModes(E[k], IF k = "Transport_L1" THEN S.ModesL1 ELSE S.ModesL2, x)]

\* the emission breakdown of the record.  Scenario_Setting_For_SC1F.py
\* 259-282, 541-545 and Scenario_Setting_For_SC2F_uns.py 261-284, 612-616:
\* the per-mode sums over L1, L2 and L3, the last mile, and CO2_prod_L1.
\* MASTER.py 809-825: the per-mode parts of L1, L2, the new-location legs
\* and L3 (road: not of L1), the last mile, CO2_prod_L1 + CO2_prod_new.
EmissionKPIs(b, E, x) ==
    LET Of(names, mo) == ExprValue({tm \in UNION {E[n] : n \in names} : tm.var[4] = mo}, x)
        legs == IF b = "MASTER"
                THEN {"CO2_tr_L1", "CO2_tr_L2", "CO2_tr_L2_new", "CO2_tr_L3"}
                ELSE {"CO2_tr_L1", "CO2_tr_L2", "CO2_tr_L3"}
    IN  [E_air |-> Of(legs, "air"),
         E_sea |-> Of(legs, "sea"),
         E_road |-> Of(legs \ {"CO2_tr_L1"}, "road"),
         E_lastmile |-> ExprValue(E["LastMile_CO2"], x),
         E_production |-> IF b = "MASTER"
                          THEN ExprValue(E["CO2_prod_L1"] \cup E["CO2_prod_new"], x)
                          ELSE ExprValue(E["CO2_prod_L1"], x)]

\* the KPI record: MASTER.py 851-894, Scenario_Setting_For_SC1F.py 545-582,
\* Scenario_Setting_For_SC2F_uns.py 625-670 (Objective_value = ObjVal - M * U),
\* SC1F.py 440-470
Results(b, a, E, obj, V, x) ==
    IF b = "Scenario_Setting_For_SC2F_uns"
    THEN [CO2_Total |-> ExprValue(E["Total_CO2"], x),
          Objective_value |-> ExprValue(obj, x) - PenaltyM * SumOver(x, V.v),
          Satisfied_Demand_units |-> total_demand(a) - SumOver(x, V.v),
          Transport |-> TransportKPIs(b, a, E, x),
          Emissions |-> EmissionKPIs(b, E, x)]
    ELSE IF b = "SC1F"
    THEN [CO2_Total |-> ExprValue(E["Total_CO2"], x),
          Objective_value |-> ExprValue(obj, x),
          Transport |-> TransportKPIs(b, a, E, x)]
    ELSE [CO2_Total |-> ExprValue(E["Total_CO2"], x),
          Objective_value |-> ExprValue(obj, x),
          Transport |-> TransportKPIs(b, a, E, x),
          Emissions |-> EmissionKPIs(b, E, x)]

\* the minimisers of the objective over a feasible set
ArgMin(F, obj) ==
    LET val == [x \in F |-> ExprValue(obj, x)]
        best == Minimum({val[x] : x \in F})
    IN  {x \in F : val[x] = best}

\* ------------------------------------------------------------ the inputs
EventNames == {"suez_canal", "oil_crises", "volcano", "trade_war"}

EventCombos == [suez_canal : BOOLEAN, oil_crises : BOOLEAN, volcano : BOOLEAN, trade_war : BOOLEAN]

NoEvents == [suez_canal |-> FALSE, oil_crises |-> FALSE, volcano |-> FALSE, trade_war |-> FALSE]

ListArgNames == {"active_plants", "active_crossdocks", "active_new_locs", "active_dcs",
                 "active_modes_L1", "active_modes_L2", "active_modes_L3"}

NoLists == [n \in ListArgNames |-> None]

\* the mode lists a caller passes for a layer
ModeLists(n) == CASE n = "active_modes_L1" -> {None, <<>>, <<"air">>, <<"sea">>}
                  [] n = "active_modes_L2" -> {None, <<>>, <<"air">>, <<"road">>}
                  [] n = "active_modes_L3" -> {None, <<>>, <<"air">>}

\* the list arguments a caller of run_scenario_master passes
ListArgs ==
    [active_plants : {None, <<>>, <<"XX">>},
     active_crossdocks : {None, <<>>},
     active_new_locs : {None, <<>>},
     active_dcs : {None, <<>>},
     active_modes_L1 : ModeLists("active_modes_L1"),
     active_modes_L2 : ModeLists("active_modes_L2"),
     active_modes_L3 : ModeLists("active_modes_L3")]

\* how many list and event arguments a call sets away from their defaults
NonDefault(la, ev) ==
    Cardinality({n \in ListArgNames : la[n] # None}) + Cardinality({f \in EventNames : ev[f]})

\* the table and service-level arguments: run_scenario_master is passed
\* mappings for data and sourcing_cost; SC1F.py has no service_level argument
\* (CO_2_max is the empty set for None, else holds the cap in 10^-6 t)
NoTables == [data |-> NoMapping, sourcing_cost |-> NoMapping, service_level |-> 90,
             CO_2_max |-> {}]

TableArgs(b) ==
    [data : IF b = "MASTER" THEN {NoMapping, DataDefault} ELSE {NoMapping},
     sourcing_cost : IF b = "MASTER" THEN {NoMapping, sourcing_cost0} ELSE {NoMapping},
     service_level : IF b = "SC1F" THEN {90} ELSE DOMAIN Density,
     CO_2_max : IF b = "MASTER" THEN {{}, {CO_2_max_given}} ELSE {{}}]

\* the list, event and table arguments of a call of builder b (SC1F.py takes
\* no event, the fixed networks take no list)
Given(b) ==
    {g \in (IF b = "MASTER" THEN ListArgs ELSE {NoLists})
           \X (IF b = "SC1F" THEN {NoEvents} ELSE EventCombos)
           \X TableArgs(b) :
        NonDefault(g[1], g[2]) + Cardinality({n \in DOMAIN NoTables : g[3][n] # NoTables[n]})
            <= MaxGiven}

\* the CO2 reduction targets, in per cent
Targets(b) == IF b = "Scenario_Setting_For_SC2F_uns" THEN {0, 75, 100} ELSE {0, 75}

Args(b) ==
    {[active_plants |-> g[1].active_plants, active_crossdocks |-> g[1].active_crossdocks,
      active_new_locs |-> g[1].active_new_locs, active_dcs |-> g[1].active_dcs,
      active_modes_L1 |-> g[1].active_modes_L1, active_modes_L2 |-> g[1].active_modes_L2,
      active_modes_L3 |-> g[1].active_modes_L3,
      demand |-> dem, dc_capacity |-> [d \in Range(Dcs_all) |-> 2],
      new_loc_capacity |-> [n \in Range(New_Locs_all) |-> 2],
      CO2_base |-> 40000, CO_2_percentage |-> pct,
      suez_canal |-> g[2].suez_canal, oil_crises |-> g[2].oil_crises,
      volcano |-> g[2].volcano, trade_war |-> g[2].trade_war,
      tariff_rate |-> IF g[2].trade_war THEN 150 ELSE 100,
      data |-> g[3].data, sourcing_cost |-> g[3].sourcing_cost,
      service_level |-> g[3].service_level, CO_2_max |-> g[3].CO_2_max,
      newloc_flags |-> NoFlags] :
     g \in Given(b),
     dem \in [Retailers_all -> 1..MaxDemand],
     pct \in Targets(b)}

\* ----------------------------------------------------------- the actions
NoDash == <<>>
NoSweep == <<>>

Init ==
    /\ builder \in Builders
    /\ args \in Args(builder)
    /\ pc = "start"
    /\ sets = NoSets
    /\ vars = NoVars
    /\ exprs = NoExprs
    /\ constrs = {}
    /\ objective = {}
    /\ X = NoSol
    /\ ObjBound = 0
    /\ results = NoResults
    /\ caller = [data |-> args.data, sourcing_cost |-> args.sourcing_cost]
    /\ dash = NoDash
    /\ sweep = NoSweep

IsMaster == builder = "MASTER"

\* sections 1-3 of the builder: the default tables, the node and mode lists
\* and the events' changes of the cost tables
ResolveSets ==
    /\ UNCHANGED <<dash, sweep>>
    /\ pc = "start"
    /\ sets' = IF IsMaster THEN MasterSets(args) ELSE FixedSets(args)
    /\ caller' = IF IsMaster THEN MasterArguments(args) ELSE caller
    /\ pc' = "sets"
    /\ UNCHANGED <<builder, args, vars, exprs, constrs, objective, X, ObjBound, results>>

\* section 4: model.addVars
AddVars ==
    /\ UNCHANGED <<dash, sweep>>
    /\ pc = "sets"
    /\ vars' = IF IsMaster THEN MasterVars(sets) ELSE FixedVars(builder, sets)
    /\ pc' = "vars"
    /\ UNCHANGED <<builder, args, sets, exprs, constrs, objective, X, ObjBound, results, caller>>

\* section 5: the cost and emission expressions
BuildExprs ==
    /\ UNCHANGED <<dash, sweep>>
    /\ pc = "vars"
    /\ IF IsMaster /\ MasterLookupFails(args, sets, vars)
       THEN pc' = "raised" /\ UNCHANGED exprs
       ELSE /\ exprs' = IF IsMaster THEN MasterExprs(args, sets, vars)
                        ELSE FixedExprs(builder, args, sets, vars)
            /\ pc' = "exprs"
    /\ UNCHANGED <<builder, args, sets, vars, constrs, objective, X, ObjBound, results, caller>>

\* section 6: model.addConstrs / addConstr.  In MASTER the CO2 constraint is
\* a Python bool when no family exists (addConstr may reject it or add
\* nothing), and line 688 raises KeyError when New_Locs is non-empty but the
\* new-location family was not created.
AddConstrs ==
    /\ UNCHANGED <<dash, sweep>>
    /\ pc = "exprs"
    /\ IF IsMaster
       THEN \/ /\ MasterBoolConstr(vars)
               /\ pc' = "raised"
               /\ UNCHANGED constrs
            \/ /\ MasterKeyError(sets, vars) \/ MasterCapacityKeyError(args, sets, vars)
               /\ pc' = "raised"
               /\ constrs' = MasterAdded(args, sets, vars, exprs) \ MasterAllOpen(args, sets, vars)
            \/ /\ ~MasterKeyError(sets, vars) /\ ~MasterCapacityKeyError(args, sets, vars)
               /\ pc' = "constrs"
               /\ constrs' = MasterAdded(args, sets, vars, exprs)
       ELSE /\ pc' = "constrs"
            /\ constrs' = FixedConstrs(builder, args, sets, exprs)
    /\ UNCHANGED <<builder, args, sets, vars, exprs, objective, X, ObjBound, results, caller>>

\* the scenario events handled after the constraints
ApplyEvents ==
    /\ UNCHANGED <<dash, sweep>>
    /\ pc = "constrs"
    /\ IF IsMaster
       THEN /\ constrs' = constrs \cup MasterEventConstrs(args, sets, vars)
            /\ UNCHANGED <<sets, exprs>>
       ELSE /\ constrs' = constrs \cup FixedSuez(args, sets)
            /\ exprs' = FixedEventExprs(args, exprs)
            /\ sets' = FixedEventSets(args, sets)
    /\ pc' = "events"
    /\ UNCHANGED <<builder, args, vars, objective, X, ObjBound, results, caller>>

\* section 7: model.setObjective
SetObjective ==
    /\ UNCHANGED <<dash, sweep>>
    /\ pc = "events"
    /\ objective' = IF IsMaster THEN MasterObjective(exprs)
                    ELSE FixedObjective(builder, exprs, vars)
    /\ pc' = "assembled"
    /\ UNCHANGED <<builder, args, sets, vars, exprs, constrs, X, ObjBound, results, caller>>

\* section 8: model.optimize().  X ranges over the feasible set, of which
\* the solver's minimiser is a member; ObjBound is the minimum it proves.
Optimize ==
    /\ UNCHANGED <<dash, sweep>>
    /\ pc = "assembled"
    /\ LET F == Solutions(vars, constrs)
       IN  IF F = {} THEN pc' = "infeasible" /\ X' = X /\ ObjBound' = ObjBound
           ELSE /\ pc' = "optimal"
                /\ ObjBound' = Minimum({ExprValue(objective, x) : x \in F})
                /\ X' \in F
    /\ UNCHANGED <<builder, args, sets, vars, exprs, constrs, objective, results, caller>>

\* variant: the objective is read through _safe_val like the other KPIs, so
\* that a solve without a solution still returns a record (of zeros)
ReturnResults_SafeObjVal ==
    /\ UNCHANGED <<dash, sweep>>
    /\ \/ /\ pc = "optimal"
          /\ ExprValue(objective, X) = ObjBound
          /\ results' = {Results(builder, args, exprs, objective, vars, X)}
       \/ /\ pc = "infeasible"
          /\ results' = {[CO2_Total |-> 0, Objective_value |-> 0]}
    /\ pc' = "returned"
    /\ UNCHANGED <<builder, args, sets, vars, exprs, constrs, objective, X, ObjBound, caller>>

\* section 9: the KPI record.  The values are read off the solution the
\* solver holds at a minimum (LinExpr.getValue(), Var.X, model.ObjVal); with
\* no solution these reads raise: MASTER.py 892 (849 when printing; the
\* reads before it go through _safe_val and yield 0.0),
\* Scenario_Setting_For_SC1F.py 541 (519 when printing),
\* Scenario_Setting_For_SC2F_uns.py 612 (585), SC1F.py 440 (420).
ReturnResults ==
    /\ UNCHANGED <<dash, sweep>>
    /\ \/ /\ pc = "optimal"
          /\ ExprValue(objective, X) = ObjBound
          /\ pc' = "returned"
          /\ results' = {Results(builder, args, exprs, objective, vars, X)}
       \/ /\ pc = "infeasible"
          /\ pc' = "raised"
          /\ UNCHANGED results
    /\ UNCHANGED <<builder, args, sets, vars, exprs, constrs, objective, X, ObjBound, caller>>

Next ==
    \/ ResolveSets
    \/ AddVars
    \/ BuildExprs
    \/ AddConstrs
    \/ ApplyEvents
    \/ SetObjective
    \/ Optimize
    \/ ReturnResults

Spec == Init /\ [][Next]_state

\* ------------------------------------------- the dashboard (Total.py)
\* the builder is not running while the dashboard or a sweep is followed:
\* their calls of it are seen by their outcome only
BuilderIdle ==
    /\ builder = "MASTER"
    /\ args = <<>>
    /\ pc = "idle"
    /\ sets = NoSets
    /\ vars = NoVars
    /\ exprs = NoExprs
    /\ constrs = {}
    /\ objective = {}
    /\ X = NoSol
    /\ ObjBound = 0
    /\ results = NoResults
    /\ caller = <<>>

BuilderVars == <<builder, args, pc, sets, vars, exprs, constrs, objective, X, ObjBound, results, caller>>

\* how a call of a builder ends
Outcomes == {"returned", "raised"}

\* Total.py 218, 398-401: the mode and the model chosen
DashModes == {"Normal Mode", "Session Mode", "Gamification Mode"}
ModelChoices == {"SC1F", "SC2F"}

\* Total.py 395-410 and the event switches: the inputs of one press
DashInputs ==
    [mode : DashModes, model_choice : ModelChoices, co2_pct : Targets("MASTER"),
     events : EventCombos, pc : {"idle"}, calls : {<<>>}, messages : {<<>>}, caught : {"none"}]

\* a call of a builder as the dashboard issues it
Call(role, fn, d, out) ==
    [role |-> role, fn |-> fn, CO_2_percentage |-> d.co2_pct, events |-> d.events,
     tariff_rate |-> IF d.events.trade_war THEN 150 ELSE 100, outcome |-> out]

DashInit ==
    /\ BuilderIdle
    /\ sweep = NoSweep
    /\ dash \in DashInputs

\* Total.py 412: the button is pressed
PressRun ==
    /\ dash.pc = "idle"
    /\ dash' = [dash EXCEPT !.pc = "try"]
    /\ UNCHANGED <<BuilderVars, sweep>>

\* Total.py 416-445, 479-504: the primary model of the mode and the choice
PrimaryFn(d) ==
    IF d.mode = "Gamification Mode" THEN "MASTER.run_scenario_master"
    ELSE IF d.model_choice = "SC1F" THEN "Scenario_Setting_For_SC1F.run_scenario"
    ELSE "Scenario_Setting_For_SC2F.run_scenario"

RunPrimary ==
    /\ dash.pc = "try"
    /\ \E out \in Outcomes :
          dash' = [dash EXCEPT
                     !.calls = Append(@, Call("primary", PrimaryFn(dash), dash, out)),
                     !.caught = IF out = "raised" THEN "primary" ELSE @,
                     !.pc = IF out = "raised" THEN "except"
                            ELSE IF dash.mode = "Gamification Mode" THEN "benchmark"
                            ELSE "render"]
    /\ UNCHANGED <<BuilderVars, sweep>>

\* Total.py 447-473: the benchmark of the Gamification Mode, in a try of its own
RunBenchmark ==
    /\ dash.pc = "benchmark"
    /\ \E out \in Outcomes :
          dash' = [dash EXCEPT
                     !.calls = Append(@, Call("benchmark", "Scenario_Setting_For_SC2F.run_scenario", dash, out)),
                     !.messages = IF out = "raised" THEN Append(@, "Benchmark run failed") ELSE @,
                     !.pc = "render"]
    /\ UNCHANGED <<BuilderVars, sweep>>

\* Total.py 507-826: the results are shown, inside the same try as the
\* primary call; a streamlit, pandas or plotly call may raise
Render ==
    /\ dash.pc = "render"
    /\ \E ok \in BOOLEAN :
          dash' = [dash EXCEPT
                     !.messages = Append(@, "Optimization complete"),
                     !.caught = IF ok THEN @ ELSE "render",
                     !.pc = IF ok THEN "done" ELSE "except"]
    /\ UNCHANGED <<BuilderVars, sweep>>

\* variant: the fallback is tried in every mode
HandleException_EveryMode ==
    /\ dash.pc = "except"
    /\ dash' = [dash EXCEPT
                   !.messages = Append(Append(@, "Primary optimization failed"), "Running fallback model"),
                   !.pc = "fallback"]
    /\ UNCHANGED <<BuilderVars, sweep>>

\* Total.py 828-845: except Exception of the try opened at 413
HandleException ==
    /\ dash.pc = "except"
    /\ dash' = [dash EXCEPT
                   !.messages = Append(Append(@, "Primary optimization failed"),
                                       IF dash.mode = "Gamification Mode"
                                       THEN "Fallback models are only defined for SC1F/SC2F"
                                       ELSE "Running fallback model"),
                   !.pc = IF dash.mode = "Gamification Mode" THEN "done" ELSE "fallback"]
    /\ UNCHANGED <<BuilderVars, sweep>>

\* Total.py 850-873
FallbackFn(d) ==
    IF d.model_choice = "SC2F" THEN "Scenario_Setting_For_SC2F_uns.run_scenario"
    ELSE "Scenario_Setting_For_SC1F_uns.run_scenario"

\* Total.py 847-1110: the fallback call and the display of its results, in
\* one try whose handler reports the failure
RunFallback ==
    /\ dash.pc = "fallback"
    /\ \E out \in Outcomes, ok \in BOOLEAN :
          dash' = [dash EXCEPT
                     !.calls = Append(@, Call("fallback", FallbackFn(dash), dash, out)),
                     !.messages = IF out = "raised" THEN Append(@, "Fallback model also failed")
                                  ELSE IF ok THEN Append(@, "Fallback optimization successful")
                                  ELSE Append(Append(@, "Fallback optimization successful"),
                                              "Fallback model also failed"),
                     !.pc = "done"]
    /\ UNCHANGED <<BuilderVars, sweep>>

DashNext ==
    \/ PressRun
    \/ RunPrimary
    \/ RunBenchmark
    \/ Render
    \/ HandleException
    \/ RunFallback

DashSpec == DashInit /\ [][DashNext]_state

\* --------------------------- the Streamlit sessions of app.py and Total.py
\* In this specification dash holds one browser session of a dashboard:
\* the widgets, st.session_state, and what the last run of the script did.
Apps == {"app.py", "Total.py"}

\* app.py 90-95, Total.py 223-227: the keys of EVENTS, in order
EVENTS(app) == IF app = "app.py" THEN <<"suez_canal", "oil_crises", "volcano", "trade_war">>
               ELSE <<"suez_canal", "oil_crises", "trade_war">>

\* app.py 82 (two modes), Total.py 218 (three)
AppModes(app) == IF app = "app.py" THEN {"Normal Mode", "Session Mode"} ELSE DashModes

\* app.py 188-191: generate_tariff_rate draws k = random.uniform(1, 2), here
\* in per cent, and returns it with x_pct = ((k - 1) / k) * 100
TariffDraws == {100, 150, 200}
generate_tariff_rate(k) == [k |-> k, x_pct |-> ((k - 100) * 100) \div k]

\* app.py defines generate_tariff_rate inside run_optimization_dashboard
\* (188); Total.py calls the name at line 251 and neither defines nor
\* imports it
DefinesTariffHelper(app) == app = "app.py"

\* Total.py 286-317: the event checkboxes and the tariff slider of
\* Gamification Mode
GmToggles ==
    {[flags |-> ev, slider |-> k] :
        ev \in {NoEvents, [NoEvents EXCEPT !.trade_war = TRUE],
                [NoEvents EXCEPT !.trade_war = TRUE, !.suez_canal = TRUE]},
        k \in {130, 200}}

\* st.session_state[key] = v
Put(st, key, v) == [x \in DOMAIN st \cup {key} |-> IF x = key THEN v ELSE st[x]]

\* app.py 198-248, Total.py 229-269 and 286-317: the part of the script
\* before the Run Optimization button.  start tells whether this run is the
\* one of a press of Start / Continue Session; chosen and k are the draws
\* of random.choice and random.uniform.  An exception ends the run.
SessionBlock(d, start, chosen, k) ==
    LET clean == [d EXCEPT !.calls = <<>>, !.error = "none", !.flags = NoEvents,
                           !.tariff_rate_used = 100]
    IN  IF d.mode = "Normal Mode" THEN clean
        ELSE IF d.mode = "Gamification Mode"
        THEN [clean EXCEPT !.flags = d.gm.flags,
                           !.tariff_rate_used = IF d.gm.flags.trade_war THEN d.gm.slider ELSE 100]
        ELSE
        LET st1 == IF "remaining_events" \in DOMAIN d.st THEN d.st
                   ELSE Put(d.st, "remaining_events", EVENTS(d.app))
            draws == start /\ Len(st1.remaining_events) > 0
            st2 == IF draws
                   THEN Put(Put(st1, "remaining_events", Remove(st1.remaining_events, chosen)),
                            "active_event", chosen)
                   ELSE st1
            drawn2 == IF draws THEN Append(d.drawn, chosen) ELSE d.drawn
            tariff == draws /\ chosen = "trade_war"
            st3 == IF tariff /\ DefinesTariffHelper(d.app)
                   THEN Put(Put(st2, "tariff_rate_random", generate_tariff_rate(k).k),
                            "tariff_x_pct", generate_tariff_rate(k).x_pct)
                   ELSE st2
            ev == IF "active_event" \in DOMAIN st3 THEN st3.active_event ELSE "none"
        IN  IF tariff /\ ~DefinesTariffHelper(d.app)
            THEN [clean EXCEPT !.st = st2, !.drawn = drawn2, !.error = "NameError"]
            ELSE IF ev = "trade_war" /\ "tariff_x_pct" \notin DOMAIN st3
            THEN [clean EXCEPT !.st = st3, !.drawn = drawn2, !.error = "AttributeError"]
            ELSE [clean EXCEPT !.st = st3, !.drawn = drawn2,
                     !.flags = [f \in EventNames |-> ev = f],
                     !.tariff_rate_used = IF "tariff_rate_random" \in DOMAIN st3
                                          THEN st3.tariff_rate_random ELSE 100]

\* a solve as a dashboard starts it: the event flags, and tariff_rate as a
\* keyword argument (empty when the call leaves it to the builder's default)
Solve(fn, d, passes) ==
    [fn |-> fn, flags |-> d.flags, tariff_rate |-> IF passes THEN {d.tariff_rate_used} ELSE {}]

\* app.py 257-282: run_SC1F with tariff_rate, run_SC2F without.  Total.py
\* 413-504 and 847-873: the master model and its benchmark, or the chosen
\* model and after an exception its fallback, each with tariff_rate.
RunCalls(d, out) ==
    IF d.app = "app.py"
    THEN IF d.model_choice = "SC1F" THEN <<Solve("run_SC1F", d, TRUE)>>
         ELSE <<Solve("run_SC2F", d, FALSE)>>
    ELSE IF d.mode = "Gamification Mode"
    THEN <<Solve("run_scenario_master", d, TRUE)>>
         \o (IF out = "returned" THEN <<Solve("run_SC2F", d, TRUE)>> ELSE <<>>)
    ELSE <<Solve(IF d.model_choice = "SC1F" THEN "run_SC1F" ELSE "run_SC2F", d, TRUE)>>
         \o (IF out = "raised" THEN <<Solve("run_Uns", d, TRUE)>> ELSE <<>>)

\* a new browser session: empty session_state, the first radio option
SessionInit ==
    /\ BuilderIdle
    /\ sweep = NoSweep
    /\ dash \in [app : Apps, mode : {"Normal Mode"}, model_choice : ModelChoices,
                  st : {<<>>}, gm : {[flags |-> NoEvents, slider |-> 130]},
                  drawn : {<<>>}, calls : {<<>>}, error : {"none"},
                  flags : {NoEvents}, tariff_rate_used : {100}]

\* the user picks another mode or model: the script reruns
SelectMode ==
    /\ \E m \in AppModes(dash.app), c \in ModelChoices :
          /\ <<m, c>> # <<dash.mode, dash.model_choice>>
          /\ dash' = SessionBlock([dash EXCEPT !.mode = m, !.model_choice = c], FALSE, "none", 100)
    /\ UNCHANGED <<BuilderVars, sweep>>

\* Total.py 286-317: the user changes a checkbox or the slider
SetToggles ==
    /\ dash.mode = "Gamification Mode"
    /\ \E g \in GmToggles :
          /\ g # dash.gm
          /\ dash' = SessionBlock([dash EXCEPT !.gm = g], FALSE, "none", 100)
    /\ UNCHANGED <<BuilderVars, sweep>>

\* app.py 209-224, Total.py 242-253: a press of Start / Continue Session
PressStart ==
    /\ dash.mode = "Session Mode"
    /\ LET left == IF "remaining_events" \in DOMAIN dash.st THEN dash.st.remaining_events
                   ELSE EVENTS(dash.app)
       IN  \E chosen \in (IF left = <<>> THEN {"none"} ELSE Range(left)), k \in TariffDraws :
              dash' = SessionBlock(dash, TRUE, chosen, k)
    /\ UNCHANGED <<BuilderVars, sweep>>

\* app.py 257, Total.py 412: a press of Run Optimization; the button is on
\* the page when the last run of the script got as far as drawing it
PressRunOptimization ==
    /\ dash.error = "none"
    /\ \E out \in Outcomes :
          LET d == SessionBlock(dash, FALSE, "none", 100)
          IN  dash' = IF d.error = "none" THEN [d EXCEPT !.calls = RunCalls(d, out)] ELSE d
    /\ UNCHANGED <<BuilderVars, sweep>>

SessionNext ==
    \/ SelectMode
    \/ SetToggles
    \/ PressStart
    \/ PressRunOptimization

SessionSpec == SessionInit /\ [][SessionNext]_state

\* ------------------------- the new-location switches of run_scenario_master
\* the base selections a caller passes as active_new_locs
GateBases == {None, <<>>, <<"HUDTG">>, <<"CZMCT", "HUDTG">>, <<"PLZCA", "IEILG", "FIMPF">>,
              <<"HUDTG", "XX">>}

\* calls of run_scenario_master that differ in active_new_locs and in the
\* five switches only
GateArgs ==
    LET a0 == CHOOSE a \in Args("MASTER") :
                  /\ \A n \in ListArgNames : a[n] = None
                  /\ \A f \in EventNames : ~a[f]
                  /\ \A n \in DOMAIN NoTables : a[n] = NoTables[n]
                  /\ a.CO_2_percentage = 0
                  /\ \A r \in Retailers_all : a.demand[r] = 1
    IN  {[a0 EXCEPT !.active_new_locs = base, !.newloc_flags = flags] :
            base \in GateBases, flags \in [Range(newloc_names) -> FlagValues]}

GateInit ==
    /\ builder = "MASTER"
    /\ args \in GateArgs
    /\ pc = "start"
    /\ sets = NoSets
    /\ vars = NoVars
    /\ exprs = NoExprs
    /\ constrs = {}
    /\ objective = {}
    /\ X = NoSol
    /\ ObjBound = 0
    /\ results = NoResults
    /\ caller = [data |-> args.data, sourcing_cost |-> args.sourcing_cost]
    /\ dash = NoDash
    /\ sweep = NoSweep

GateSpec == GateInit /\ [][ResolveSets]_state

\* ------------------------------------ the sweeps (simulate_scenarios_full)
Sweepers == {"SC1F", "Scenario_Setting_For_SC1F", "Scenario_Setting_For_SC2F_uns"}

\* the first values of the grids: demand levels and targets in per cent,
\* CO2 cost in cents per ton (SC1F.py 485-506,
\* Scenario_Setting_For_SC2F_uns.py 692-714)
demand_levels == <<100, 95>>
co2_values == <<0, 1, 2>>
CO_2_Costs(b) == IF b = "Scenario_Setting_For_SC2F_uns" THEN <<0, 2000>> ELSE <<3750>>

\* the grid points in the order of the nested loops: level, target, cost
Grid(b) ==
    LET nl == Len(demand_levels)  nt == Len(co2_values)  nc == Len(CO_2_Costs(b))
    IN  [k \in 1..(nl * nt * nc) |->
            [level |-> demand_levels[((k - 1) \div (nt * nc)) + 1],
             co2_pct |-> co2_values[(((k - 1) \div nc) % nt) + 1],
             co2_cost |-> CO_2_Costs(b)[((k - 1) % nc) + 1]]]

\* how a run_scenario call of the sweep ends: it raises (an infeasible
\* solve raises at the first getValue, as in ReturnResults) or it returns
\* with model.Status = OPTIMAL
IterOutcomes == {"raised", "OPTIMAL"}

\* SC1F.py 524-527, Scenario_Setting_For_SC1F.py 636-639: the status check
ChecksStatus(b) == b # "Scenario_Setting_For_SC2F_uns"

SweepInit ==
    /\ BuilderIdle
    /\ dash = NoDash
    /\ sweep \in [builder : Sweepers, pc : {"loop"}, i : {1}, attempts : {<<>>},
                   rows : {<<>>}, scenario_counter : {0}, sheets : {<<>>}]

FirstOfLevel(g, k) == k = 1 \/ g[k].level # g[k - 1].level
LastOfLevel(g, k) == k = Len(g) \/ g[k].level # g[k + 1].level

\* variant: the first failure ends the sweep of the demand level
Iterate_BreakOnError ==
    LET b == sweep.builder
        g == Grid(b)
        k == sweep.i
        nextLevel == IF \E j \in (k + 1)..Len(g) : FirstOfLevel(g, j)
                     THEN CHOOSE j \in (k + 1)..Len(g) : FirstOfLevel(g, j)
                                    /\ \A h \in (k + 1)..(j - 1) : ~FirstOfLevel(g, h)
                     ELSE Len(g) + 1
    IN  /\ sweep.pc = "loop"
        /\ \E out \in IterOutcomes :
              sweep' = [sweep EXCEPT
                  !.attempts = Append(@, [point |-> g[k], outcome |-> out]),
                  !.rows = IF out = "OPTIMAL"
                           THEN Append(@, [point |-> g[k], Status |-> out,
                                           Scenario_ID |-> sweep.scenario_counter + 1])
                           ELSE @,
                  !.scenario_counter = @ + 1,
                  !.i = IF out = "raised" THEN nextLevel ELSE k + 1,
                  !.pc = IF out = "raised" \/ LastOfLevel(g, k) THEN "sheet" ELSE "loop"]
        /\ UNCHANGED <<BuilderVars, dash>>

\* one pass of the innermost loop.  SC1F.py 510-556 and
\* Scenario_Setting_For_SC1F.py 622-668: the call in a try, `continue` on an
\* exception or on a status other than OPTIMAL, then the counter and the
\* row.  Scenario_Setting_For_SC2F_uns.py 718-759: the counter first, then
\* the call and the row in one try, `continue` on an exception.
Iterate ==
    LET b == sweep.builder
        g == Grid(b)
        k == sweep.i
        counter0 == IF FirstOfLevel(g, k) THEN 0 ELSE sweep.scenario_counter
    IN  /\ sweep.pc = "loop"
        /\ \E out \in IterOutcomes :
              LET skipped == out = "raised" \/ (ChecksStatus(b) /\ out # "OPTIMAL")
                  counter == IF ChecksStatus(b) /\ skipped THEN counter0 ELSE counter0 + 1
              IN  sweep' = [sweep EXCEPT
                      !.attempts = Append(@, [point |-> g[k], outcome |-> out]),
                      !.rows = IF skipped THEN @
                               ELSE Append(@, [point |-> g[k], Status |-> out,
                                               Scenario_ID |-> counter]),
                      !.scenario_counter = counter,
                      !.i = k + 1,
                      !.pc = IF LastOfLevel(g, k) THEN "sheet" ELSE "loop"]
        /\ UNCHANGED <<BuilderVars, dash>>

\* the rows of the demand level that has just been swept (results_summary)
LevelRows(sw, level) == SelectSeq(sw.rows, LAMBDA r : r.point.level = level)

\* DataFrame.to_excel on an ExcelWriter opened for writing: a new sheet name
\* creates a sheet, a name the workbook already holds is written into
\* cell by cell from the top, so that rows below the new ones stay
to_excel(book, name, rows) ==
    IF \E k \in 1..Len(book) : book[k].name = name
    THEN [k \in 1..Len(book) |->
            IF book[k].name = name
            THEN [name |-> name,
                  rows |-> rows \o SubSeq(book[k].rows, Len(rows) + 1, Len(book[k].rows))]
            ELSE book[k]]
    ELSE Append(book, [name |-> name, rows |-> rows])

\* SC1F.py 569-603: the array-style summary, one line per record
formatted_summary(rows) ==
    [k \in 1..Len(rows) |-> [CO2_Reduction |-> rows[k].point.co2_pct]]

\* SC1F.py 558-605, Scenario_Setting_For_SC2F_uns.py 761-771: a level
\* without a row is skipped, otherwise its sheet is written: Demand_<level>%
\* and Array_<level>% in the SC1F sweeps, "deneme" in the slack sweep
EndLevel ==
    LET level == sweep.attempts[Len(sweep.attempts)].point.level
        rows == LevelRows(sweep, level)
    IN  /\ sweep.pc = "sheet"
        /\ sweep' = [sweep EXCEPT
               !.sheets = IF rows = <<>> THEN @
                          ELSE IF ChecksStatus(sweep.builder)
                          THEN to_excel(to_excel(@, <<"Demand", level>>, rows),
                                        <<"Array", level>>, formatted_summary(rows))
                          ELSE to_excel(@, <<"deneme", 0>>, rows),
               !.pc = IF sweep.i > Len(Grid(sweep.builder)) THEN "closing" ELSE "loop"]
        /\ UNCHANGED <<BuilderVars, dash>>

\* SC1F.py 607: writer.close()
CloseWriter ==
    /\ sweep.pc = "closing"
    /\ sweep' = [sweep EXCEPT !.pc = "done"]
    /\ UNCHANGED <<BuilderVars, dash>>

SweepNext ==
    \/ Iterate
    \/ EndLevel
    \/ CloseWriter

SweepSpec == SweepInit /\ [][SweepNext]_state

\* --------------------------------------------------------------- claims
\* the model is complete: every constraint of the call has been added
Assembled == pc \in {"assembled", "optimal", "infeasible"}

NoSlack == builder \in {"MASTER", "Scenario_Setting_For_SC1F", "SC1F"}

\* total of the solver's answer over a set of variables
Flow(F) == SumOver(X, F)

Into(F, d) == {y \in F : y[3] = d}
OutOf(F, o) == {y \in F : y[2] = o}
ByMode(F, mo) == {y \in F : y[4] = mo}

\* k is the equality  sum(ins) = sum(outs)
IsBalance(k, ins, outs) ==
    /\ k.sense = "==" /\ k.rhs = 0
    /\ {tm.var : tm \in {t \in k.lhs : t.coef = 1}} = ins
    /\ {tm.var : tm \in {t \in k.lhs : t.coef = -1}} = outs
    /\ \A tm \in k.lhs : tm.coef \in {1, -1}

\* C1: the assembled constraint set holds, for every active crossdock c, the
\* equality (f1 flow into c) = (f2 flow out of c), an empty sum counting as
\* 0, and so no solution lets a crossdock ship more than it receives.
C1_CrossdockConservation ==
    Assembled =>
        \A c \in Range(sets.Crossdocks) :
            /\ \E k \in constrs : IsBalance(k, Into(vars.f1, c), OutOf(vars.f2, c))
            /\ pc = "optimal" => Flow(OutOf(vars.f2, c)) <= Flow(Into(vars.f1, c))

\* C2: the assembled constraint set holds, for every active DC d, the
\* equality (f2 flow into d + f2_2 flow into d) = (f3 flow out of d), an
\* empty sum counting as 0, and so inbound equals outbound at every DC.
C2_DCConservation ==
    Assembled =>
        \A d \in Range(sets.Dcs) :
            /\ \E k \in constrs :
                  IsBalance(k, Into(vars.f2, d) \cup Into(vars.f2_new, d), OutOf(vars.f3, d))
            /\ pc = "optimal" =>
                  Flow(Into(vars.f2, d)) + Flow(Into(vars.f2_new, d)) = Flow(OutOf(vars.f3, d))

\* C3: in every solution of MASTER and of the slack builder the f3 outflow
\* of each DC is at most its dc_capacity, and the f2_2 outflow of each new
\* location is at most new_loc_capacity times its open binary (nothing when
\* the binary is 0).
C3_Capacity ==
    (pc = "optimal" /\ builder \in {"MASTER", "Scenario_Setting_For_SC2F_uns"}) =>
        /\ \A d \in Range(sets.Dcs) : Flow(OutOf(vars.f3, d)) <= args.dc_capacity[d]
        /\ \A n \in Range(sets.New_Locs) :
              BinVar(n) \in vars.f2_2_bin =>
                  /\ Flow(OutOf(vars.f2_new, n)) <= args.new_loc_capacity[n] * X[BinVar(n)]
                  /\ X[BinVar(n)] = 0 => \A y \in OutOf(vars.f2_new, n) : X[y] = 0

\* a DC ships and a new location, open, ships into it
C3_Witness ==
    /\ pc = "optimal" /\ builder \in {"MASTER", "Scenario_Setting_For_SC2F_uns"}
    /\ \E d \in Range(sets.Dcs) : Flow(OutOf(vars.f3, d)) = args.dc_capacity[d]
    /\ \E n \in Range(sets.New_Locs) :
          BinVar(n) \in vars.f2_2_bin /\ X[BinVar(n)] = 1 /\ Flow(OutOf(vars.f2_new, n)) > 0

\* emission of one unit of flow on a variable, from the coefficient tables
\* alone: production at the origin, transport over the arc, last mile
UnitCO2(y) ==
    CASE y[1] = "f1"   -> co2_prod_kg_per_unit[y[2]] * 100 + TrCO2(y[4], dist1[y[2]][y[3]])
      [] y[1] = "f2"   -> TrCO2(y[4], dist2[y[2]][y[3]])
      [] y[1] = "f2_2" -> new_loc_CO2[y[2]] * 100 + TrCO2(y[4], dist2_new[y[2]][y[3]])
      [] y[1] = "f3"   -> TrCO2(y[4], dist3[y[2]][y[3]]) + lastmile_CO2_kg

RECURSIVE TotalCO2(_)
TotalCO2(F) == IF F = {} THEN 0
               ELSE LET y == CHOOSE z \in F : TRUE
                    IN  X[y] * UnitCO2(y) + TotalCO2(F \ {y})

\* C4: in every solution of every builder the emissions of all the flows -
\* production, transport on every layer, last mile - are at most
\* CO2_base * (1 - CO_2_percentage); every flow variable of the model is in
\* the capped total.
C4_EmissionCap ==
    /\ (pc = "assembled" /\ FlowVars(vars) # {}) =>
          \E k \in constrs : /\ k.name = "CO2ReductionTarget"
                             /\ FlowVars(vars) \subseteq VarsOf(k.lhs)
    /\ pc = "optimal" => 100 * TotalCO2(FlowVars(vars)) <= CO2Cap(args)

\* a solution that ships on every layer, from a new location too, and
\* emits more than half of the cap
C4_Witness ==
    /\ pc = "optimal"
    /\ \E y \in vars.f1 : X[y] > 0
    /\ \E y \in vars.f2 : X[y] > 0
    /\ \E y \in vars.f2_new : X[y] > 0
    /\ \E y \in vars.f3 : X[y] > 0
    /\ 2 * 100 * TotalCO2(FlowVars(vars)) > CO2Cap(args)

\* what reaches retailer r
Delivered(r) == Flow(Into(vars.f3, r))

C6_DemandWithSlack ==
    /\ (pc = "optimal" /\ builder = "Scenario_Setting_For_SC2F_uns") =>
          \A r \in sets.Retailers :
              /\ SlackVar(r) \in vars.v
              /\ Delivered(r) + X[SlackVar(r)] = args.demand[r]
              /\ X[SlackVar(r)] >= 0
              /\ Delivered(r) <= args.demand[r]
    /\ (pc = "assembled" /\ builder = "Scenario_Setting_For_SC2F_uns") =>
          \A r \in sets.Retailers : CoefOf(objective, SlackVar(r)) = PenaltyM

\* a retailer is left with unmet demand
C6_Witness ==
    /\ pc = "optimal" /\ builder = "Scenario_Setting_For_SC2F_uns"
    /\ \E r \in sets.Retailers : X[SlackVar(r)] > 0 /\ Delivered(r) < args.demand[r]

AirVars == ByMode(FlowVars(vars), "air")

\* k fixes the variable y to zero
FixesToZero(k, y) == k.sense = "==" /\ k.rhs = 0 /\ VarsOf(k.lhs) = {y}
                     /\ \A tm \in k.lhs : tm.coef # 0

\* C7: with volcano set, the model handed to the solver admits no positive
\* air flow: every air variable that exists is fixed to zero.
C7_VolcanoBlocksAir ==
    (args.volcano /\ builder # "SC1F") =>
        /\ Assembled => \A y \in AirVars : \E k \in constrs : FixesToZero(k, y)
        /\ pc = "optimal" => \A y \in AirVars : X[y] = 0

\* the constraints of a whole call that runs to its end
ConstrsOf(b, a) ==
    IF b = "MASTER"
    THEN LET S == MasterSets(a)
             V == MasterVars(S)
             E == MasterExprs(a, S, V)
         IN  MasterAdded(a, S, V, E) \cup MasterEventConstrs(a, S, V)
    ELSE LET S == FixedSets(a)
             V == FixedVars(b, S)
             E == FixedExprs(b, a, S, V)
         IN  FixedConstrs(b, a, S, E) \cup FixedSuez(a, S)

Layer23Vars == vars.f2 \cup vars.f2_new \cup vars.f3

\* C8: with suez_canal set, every solution has zero flow on every f1 sea
\* variable, and the constraints over f2, f2_2 and f3 are those of the same
\* call with suez_canal false.
C8_SuezBlocksSeaOnL1 ==
    (args.suez_canal /\ builder # "SC1F") =>
        /\ pc = "optimal" => \A y \in ByMode(vars.f1, "sea") : X[y] = 0
        /\ pc = "assembled" =>
              LET off == ConstrsOf(builder, [args EXCEPT !.suez_canal = FALSE])
              IN  /\ {k \in constrs : VarsOf(k.lhs) \cap Layer23Vars # {}}
                     = {k \in off : VarsOf(k.lhs) \cap Layer23Vars # {}}
                  /\ \A k \in constrs \ off : VarsOf(k.lhs) \subseteq ByMode(vars.f1, "sea")

\* sea exists on layer 1, is blocked, and the plants ship by air instead,
\* while sea still carries flow on layers 2 and 3
C8_Witness ==
    /\ args.suez_canal /\ pc = "optimal"
    /\ ByMode(vars.f1, "sea") # {}
    /\ \E y \in ByMode(vars.f1, "air") : X[y] > 0
    /\ \E y \in ByMode(vars.f2, "sea") : X[y] > 0
    /\ \E y \in ByMode(vars.f3, "sea") : X[y] > 0

\* the layers whose mode list is empty once MASTER has resolved it
EmptyLayers(a) ==
    {L \in {"ModesL1", "ModesL2", "ModesL3"} : MasterSets(a)[L] = <<>>}

LayerVars(V, L) == CASE L = "ModesL1" -> V.f1
                     [] L = "ModesL2" -> V.f2 \cup V.f2_new
                     [] L = "ModesL3" -> V.f3

LayerFamilies(L) == CASE L = "ModesL1" -> {"f1"}
                      [] L = "ModesL2" -> {"f2", "f2_2"}
                      [] L = "ModesL3" -> {"f3"}

\* C9: a call of MASTER with an empty mode list for a layer completes the
\* assembly without raising, creates no flow variable of that layer, and no
\* cost or emission expression has a term of that layer.
C9_EmptyLayerIsGraceful ==
    builder = "MASTER" =>
        \A L \in EmptyLayers(args) :
            /\ pc # "raised"
            /\ LayerVars(vars, L) = {}
            /\ \A e \in ExprNames : \A tm \in exprs[e] : tm.var[1] \notin LayerFamilies(L)
            /\ \A tm \in objective : tm.var[1] \notin LayerFamilies(L)

\* C10: every flow variable MASTER created occurs in a flow-conservation
\* constraint (CrossdockBalance, DCBalance) or in a capacity constraint
\* (DCCapacity, NewLocCapacity).
C10_EveryFlowVarConstrained ==
    (builder = "MASTER" /\ Assembled) =>
        \A y \in FlowVars(vars) :
            \E k \in constrs :
                /\ k.name \in {"CrossdockBalance", "DCBalance", "DCCapacity", "NewLocCapacity"}
                /\ y \in VarsOf(k.lhs)

\* the variables of a call of MASTER with arguments a
VarsFor(a) == MasterVars(MasterSets(a))

\* C11: the flow variables of MASTER are exactly f1 over Plants x Crossdocks
\* x ModesL1, f2 over Crossdocks x Dcs x ModesL2, f2_2 over New_Locs x Dcs x
\* ModesL2 and f3 over Dcs x Retailers x ModesL3 of the resolved sets; layer
\* 1 has a road variable only when road is listed for it; and the mode list
\* given for one layer does not change the variables of another layer.
C11_VariableUniverse ==
    (builder = "MASTER" /\ pc = "vars") =>
        /\ vars.f1 = {Var("f1", p, c, mo) : p \in Range(sets.Plants),
                          c \in Range(sets.Crossdocks), mo \in Range(sets.ModesL1)}
        /\ vars.f2 = {Var("f2", c, d, mo) : c \in Range(sets.Crossdocks),
                          d \in Range(sets.Dcs), mo \in Range(sets.ModesL2)}
        /\ vars.f2_new = {Var("f2_2", n, d, mo) : n \in Range(sets.New_Locs),
                          d \in Range(sets.Dcs), mo \in Range(sets.ModesL2)}
        /\ vars.f3 = {Var("f3", d, r, mo) : d \in Range(sets.Dcs),
                          r \in sets.Retailers, mo \in Range(sets.ModesL3)}
        /\ ByMode(vars.f1, "road") # {} =>
              (args.active_modes_L1 # None /\ "road" \in Range(args.active_modes_L1))
        /\ \A m \in ModeLists("active_modes_L1") :
              LET W == VarsFor([args EXCEPT !.active_modes_L1 = m])
              IN  W.f2 = vars.f2 /\ W.f2_new = vars.f2_new /\ W.f3 = vars.f3
        /\ \A m \in ModeLists("active_modes_L2") :
              LET W == VarsFor([args EXCEPT !.active_modes_L2 = m])
              IN  W.f1 = vars.f1 /\ W.f3 = vars.f3
        /\ \A m \in ModeLists("active_modes_L3") :
              LET W == VarsFor([args EXCEPT !.active_modes_L3 = m])
              IN  W.f1 = vars.f1 /\ W.f2 = vars.f2 /\ W.f2_new = vars.f2_new

\* layer 2 is given road only: it has road variables, layer 1 keeps air and
\* sea and has none
C11_Witness ==
    /\ builder = "MASTER" /\ pc = "vars"
    /\ args.active_modes_L2 = <<"road">>
    /\ vars.f2 # {} /\ vars.f2 = ByMode(vars.f2, "road")
    /\ vars.f1 # {} /\ ByMode(vars.f1, "road") = {}
    /\ vars.f3 # {}

\* C12: in the model MASTER builds, opening a new location is a free
\* decision: whenever the model is feasible, each active new location has a
\* feasible assignment with its open binary 0 and no outflow.
C12_NewLocationsOptional ==
    (builder = "MASTER" /\ pc = "assembled" /\ Solutions(vars, constrs) # {}) =>
        \A n \in Range(sets.New_Locs) :
            \E x \in Solutions(vars, constrs) :
                /\ x[BinVar(n)] = 0
                /\ \A y \in OutOf(vars.f2_new, n) : x[y] = 0

\* some member of a resolved list of MASTER has no entry in a coefficient
\* table that refers to it
MissingCoefficient(a) ==
    LET S == MasterSets(a)
    IN  \/ \E p \in Range(S.Plants) : \/ p \notin DOMAIN dist1 \/ p \notin DOMAIN sourcing_cost0
                                      \/ p \notin DOMAIN co2_prod_kg_per_unit
        \/ \E c \in Range(S.Crossdocks) : c \notin DOMAIN dist2 \/ c \notin DOMAIN handling_crossdock
        \/ \E n \in Range(S.New_Locs) : \/ n \notin DOMAIN dist2_new
                                        \/ n \notin DOMAIN a.new_loc_capacity
                                        \/ n \notin DOMAIN new_loc_CO2
        \/ \E d \in Range(S.Dcs) : \/ d \notin DOMAIN dist3 \/ d \notin DOMAIN handling_dc
                                   \/ d \notin DOMAIN a.dc_capacity
        \/ \E mo \in Range(S.ModesL1) \cup Range(S.ModesL2) \cup Range(S.ModesL3) :
              mo \notin DOMAIN tau0 \/ mo \notin DOMAIN co2_emission_factor

\* C13: a call of MASTER in which a member of a resolved list has no entry
\* in a coefficient table that refers to it raises before the solver is
\* invoked.
C13_MissingCoefficientRaises ==
    (builder = "MASTER" /\ MissingCoefficient(args)) =>
        pc \notin {"assembled", "optimal", "infeasible", "returned"}

\* C14: a solve that ends without a solution never yields a results mapping:
\* from the infeasible status the call can only raise, a record is produced
\* only from the optimal status, and no record exists after a raise.
C14_NoRecordWhenInfeasible ==
    [][/\ pc = "infeasible" => (pc' = "raised" /\ results' = NoResults)
       /\ results' # NoResults => (pc = "optimal" /\ pc' = "returned")
       /\ pc' = "raised" => results' = NoResults]_state

\* the solver found the model of a fixed-network call infeasible and the
\* call raised
C14_Witness ==
    /\ builder # "MASTER"
    /\ pc = "raised"
    /\ objective # {}
    /\ constrs # {}
    /\ Solutions(vars, constrs) = {}
    /\ results = NoResults

\* C15: run_scenario_master returns with the caller's data and sourcing_cost
\* objects as they were passed, so that a second call given the same
\* objects raises no lookup error and builds the same expressions.
C15_NoMutationAcrossCalls ==
    (builder = "MASTER" /\ pc = "returned") =>
        /\ caller.data = args.data
        /\ caller.sourcing_cost = args.sourcing_cost
        /\ LET again == [args EXCEPT !.data = caller.data, !.sourcing_cost = caller.sourcing_cost]
               S == MasterSets(again)
               V == MasterVars(S)
           IN  /\ ~MasterLookupFails(again, S, V)
               /\ V = vars
               /\ MasterExprs(again, S, V) = exprs

\* the records the same call returns when its CO2 target is t
ReturnedFor(t) ==
    LET F == Solutions(vars, ConstrsOf(builder, [args EXCEPT !.CO_2_percentage = t]))
    IN  {Results(builder, args, exprs, objective, vars, x) : x \in ArgMin(F, objective)}

\* model.ObjVal of a returned record: the slack formulation reports the
\* objective net of the penalty on the unmet demand
ObjValOf(r) ==
    IF builder = "Scenario_Setting_For_SC2F_uns"
    THEN r.Objective_value + PenaltyM * (total_demand(args) - r.Satisfied_Demand_units)
    ELSE r.Objective_value

\* C16 as stated: for the three builders with a CO2 target, a call that
\* returns for a target returns, for every target at least as strict at
\* which the solve is optimal, an Objective_value at least as large.
C16_MonotoneObjectiveValue ==
    (pc = "returned" /\ builder # "SC1F") =>
        \A t \in Targets(builder) : t >= args.CO_2_percentage =>
            \A r1 \in results, r2 \in ReturnedFor(t) :
                r2.Objective_value >= r1.Objective_value

\* C16 amended: the solver's objective (model.ObjVal) never decreases when
\* the target is tightened; it is the returned Objective_value for
\* run_scenario_master and the fixed network, and Objective_value plus the
\* penalty on the unmet demand for the slack formulation.
C16_MonotoneOptimum ==
    (pc = "returned" /\ builder # "SC1F") =>
        \A t \in Targets(builder) : t >= args.CO_2_percentage =>
            \A r1 \in results, r2 \in ReturnedFor(t) :
                /\ ObjValOf(r2) >= ObjValOf(r1)
                /\ builder # "Scenario_Setting_For_SC2F_uns"
                      => r2.Objective_value >= r1.Objective_value

\* a call of run_scenario_master returned for the target 0, and the same
\* call with a stricter target is optimal with a strictly larger objective
C16_Witness ==
    /\ pc = "returned"
    /\ builder = "MASTER"
    /\ \E t \in Targets(builder) : /\ t > args.CO_2_percentage
          /\ \E r1 \in results, r2 \in ReturnedFor(t) : ObjValOf(r2) > ObjValOf(r1)

\* C17: the emission-cap constraint of an assembled run_scenario_master
\* model has CO_2_max as its right-hand side when CO_2_max is given, and
\* CO2_base * (1 - CO_2_percentage) when it is None.
C17_DirectCapParameter ==
    (builder = "MASTER" /\ pc = "assembled") =>
        \A k \in constrs : k.name = "CO2ReductionTarget" =>
            k.rhs = IF args.CO_2_max = {} THEN CO2Cap(args)
                    ELSE 100 * (CHOOSE m \in args.CO_2_max : TRUE)

\* the inventory-cost expressions of the current call had its service
\* level been sl
InvCostsFor(sl) ==
    LET a == [args EXCEPT !.service_level = sl]
        E == IF builder = "MASTER" THEN MasterExprs(a, sets, vars)
             ELSE FixedExprs(builder, a, sets, vars)
    IN  [e \in {"InvCost_L1", "InvCost_L2", "InvCost_L2_new", "InvCost_L3"} |-> E[e]]

\* C18: in the builders with a service_level argument the safety-stock part
\* of the inventory-cost coefficients depends on the service level: the
\* same call with another service level has other inventory-cost terms.
C18_SafetyStockFollowsServiceLevel ==
    (pc = "exprs" /\ builder # "SC1F" /\ FlowVars(vars) # {}) =>
        \A sl \in DOMAIN Density \ {args.service_level} :
            InvCostsFor(sl) # InvCostsFor(args.service_level)

\* the positions in dash.calls of the calls of a role
CallsOf(role) == {i \in 1..Len(dash.calls) : dash.calls[i].role = role}

SameInputs(c1, c2) ==
    /\ c1.CO_2_percentage = c2.CO_2_percentage
    /\ c1.events = c2.events
    /\ c1.tariff_rate = c2.tariff_rate

\* what C19 says of one press whatever set the fallback off
C19_Common ==
    /\ Cardinality(CallsOf("primary")) <= 1
    /\ dash.pc \notin {"idle", "try"} => Cardinality(CallsOf("primary")) = 1
    /\ Cardinality(CallsOf("fallback")) <= 1
    /\ dash.mode = "Gamification Mode" => CallsOf("fallback") = {}
    /\ \A i \in CallsOf("fallback") :
          /\ i = Len(dash.calls)
          /\ dash.pc = "done"
          /\ \E j \in CallsOf("primary") : j < i /\ SameInputs(dash.calls[j], dash.calls[i])
          /\ dash.calls[i].outcome = "raised"
                => dash.messages[Len(dash.messages)] = "Fallback model also failed"

Points(q) == [k \in 1..Len(q) |-> q[k].point]

LevelsWithRows == {sweep.rows[k].point.level : k \in 1..Len(sweep.rows)}

\* C21: after a sweep has finished, every demand level that produced a row
\* has a sheet of its own in the workbook that holds exactly the rows of
\* that level.
C21_OneSheetPerLevel ==
    (sweep # NoSweep /\ sweep.pc = "done") =>
        \E sheetOf \in [LevelsWithRows -> 1..Len(sweep.sheets)] :
            /\ \A l \in LevelsWithRows :
                  sweep.sheets[sheetOf[l]].rows = LevelRows(sweep, l)
            /\ \A l1, l2 \in LevelsWithRows : l1 # l2 => sheetOf[l1] # sheetOf[l2]

\* the base selection of the call
New_Locs_base == Pick(args.active_new_locs, New_Locs_all)

\* C22: in run_scenario_master, once one of the five switches is not None
\* the resolved new locations are the locations of the base selection whose
\* own switch is truthy, in the order of the base selection; with the five
\* switches at None they are the base selection.
C22_FlagGating ==
    (IsMaster /\ pc = "sets") =>
        IF \A n \in Range(newloc_names) : args.newloc_flags[n] = "None"
        THEN sets.New_Locs = New_Locs_base
        ELSE sets.New_Locs
               = SelectSeq(New_Locs_base,
                           LAMBDA n : /\ n \in Range(newloc_names)
                                      /\ args.newloc_flags[n] \in {"True"})

\* a call whose base selection holds a location with its switch on, one with
\* its switch left at None, and the latter is not resolved
C22_Witness ==
    /\ IsMaster /\ pc = "sets"
    /\ args.active_new_locs = <<"CZMCT", "HUDTG">>
    /\ args.newloc_flags["HUDTG"] = "True"
    /\ args.newloc_flags["CZMCT"] = "None"
    /\ sets.New_Locs = <<"HUDTG">>

\* the distance a flow variable runs over, and the cost of one unit of it
\* at the base rates
DistOf(y) == CASE y[1] = "f1" -> dist1[y[2]][y[3]]
               [] y[1] = "f2" -> dist2[y[2]][y[3]]
               [] y[1] = "f2_2" -> dist2_new[y[2]][y[3]]
               [] y[1] = "f3" -> dist3[y[2]][y[3]]
BaseTransportCoef(y) == TrCost(tau0, y[4], DistOf(y))

\* C23: with oil_crises set, each per-layer transport cost of the returned
\* record is the value of the transport terms of that layer in the
\* objective (so it carries the factor 1.3); with oil_crises not set, every
\* transport and last-mile coefficient of the objective is the base one.
C23_OilShockReported ==
    pc = "returned" =>
        \A r \in results :
            /\ args.oil_crises =>
                  \A k \in DOMAIN r.Transport :
                      r.Transport[k] = ExprValue({tm \in objective : tm.part = k}, X)
            /\ ~args.oil_crises =>
                  \A tm \in objective :
                      /\ tm.part \in {"Transport_L1", "Transport_L2", "Transport_L2_new",
                                       "Transport_L3"}
                            => tm.coef = BaseTransportCoef(tm.var)
                      /\ tm.part = "LastMile_Cost" => tm.coef = lastmile_unit_cost

\* C24: in every record that carries the emission breakdown, E_air + E_sea
\* + E_road + E_lastmile + E_production equals CO2_Total.
C24_EmissionBreakdownAddsUp ==
    pc = "returned" =>
        \A r \in results :
            "Emissions" \in DOMAIN r =>
                r.Emissions.E_air + r.Emissions.E_sea + r.Emissions.E_road
                    + r.Emissions.E_lastmile + r.Emissions.E_production = r.CO2_Total

\* C25: every solve a dashboard starts with trade_war set is passed the
\* session's current tariff rate as tariff_rate.
C25_TariffPassThrough ==
    \A i \in 1..Len(dash.calls) :
        dash.calls[i].flags.trade_war => dash.calls[i].tariff_rate = {dash.tariff_rate_used}

\* the list of events still to draw and the active event of a session
Remaining(d) == IF "remaining_events" \in DOMAIN d.st THEN d.st.remaining_events
                ELSE EVENTS(d.app)
Active(d) == IF "active_event" \in DOMAIN d.st THEN d.st.active_event ELSE "none"
FlagsSet(ev) == {f \in EventNames : ev[f]}

\* what holds in every state of a session: no event was drawn twice, the
\* active event is the last one drawn, drawn and remaining events make up
\* EVENTS, and outside Gamification Mode at most one flag is set (none in
\* Normal Mode), in the script and in every solve it started
C26_State ==
    /\ \A i, j \in 1..Len(dash.drawn) : dash.drawn[i] = dash.drawn[j] => i = j
    /\ Active(dash) = IF dash.drawn = <<>> THEN "none" ELSE dash.drawn[Len(dash.drawn)]
    /\ Range(dash.drawn) \cup Range(Remaining(dash)) = Range(EVENTS(dash.app))
    /\ Len(dash.drawn) + Len(Remaining(dash)) = Len(EVENTS(dash.app))
    /\ dash.mode # "Gamification Mode" =>
          /\ Cardinality(FlagsSet(dash.flags)) <= 1
          /\ \A i \in 1..Len(dash.calls) : dash.calls[i].flags = dash.flags
    /\ dash.mode = "Normal Mode" => FlagsSet(dash.flags) = {}

\* what holds of every step of a session: the remaining list and the
\* active event change only by a draw, which removes the drawn event and
\* only it and makes it the active event; with an empty list nothing of the
\* two changes any more
C26_Step ==
    /\ Remaining(dash') # Remaining(dash) \/ Active(dash') # Active(dash)
          => /\ Active(dash') \in Range(Remaining(dash))
             /\ Active(dash') \notin Range(Remaining(dash'))
             /\ Len(Remaining(dash')) = Len(Remaining(dash)) - 1
             /\ \A e \in Range(Remaining(dash)) \ {Active(dash')} : e \in Range(Remaining(dash'))
             /\ dash'.drawn = Append(dash.drawn, Active(dash'))
    /\ Remaining(dash) = <<>> => Remaining(dash') = <<>> /\ Active(dash') = Active(dash)
    /\ dash'.drawn # dash.drawn => Remaining(dash') # Remaining(dash)

C27_TradeWarStateComplete ==
    Active(dash) = "trade_war" =>
        /\ "tariff_rate_random" \in DOMAIN dash.st
        /\ "tariff_x_pct" \in DOMAIN dash.st
        /\ dash.st.tariff_rate_random \in 100..200
        /\ dash.error = "none"

\* the point with no flow, nothing opened and the whole demand unmet
ZeroPoint == [y \in AllVars(vars) |-> IF y \in vars.v THEN args.demand[y[2]] ELSE 0]

\* C28: whatever the event flags, for a target of at most 100 per cent the
\* model of the slack builder is feasible: the point with all flows 0, all
\* open decisions 0 and v[r] = demand[r] satisfies every constraint, and
\* the solve does not end infeasible.
C28_SlackAlwaysFeasible ==
    (builder = "Scenario_Setting_For_SC2F_uns" /\ args.CO_2_percentage <= 100) =>
        /\ pc = "assembled" => Feasible(ZeroPoint, {Row(c) : c \in constrs})
        /\ pc # "infeasible"

\* a call with an event and the target 100 per cent, returned with the whole
\* demand unmet
C28_Witness ==
    /\ builder = "Scenario_Setting_For_SC2F_uns"
    /\ pc = "returned"
    /\ args.CO_2_percentage = 100
    /\ args.suez_canal
    /\ X = ZeroPoint

\* C29: in every sweep the Scenario_ID values of the rows of one demand
\* level are 1, 2, ..., k in the order the rows were recorded.
C29_ScenarioIdsConsecutive ==
    sweep # NoSweep =>
        \A level \in Range(demand_levels) :
            LET q == LevelRows(sweep, level)
            IN  \A k \in 1..Len(q) : q[k].Scenario_ID = k

====
